---- MODULE Spec2Model ----
(***************************************************************************)
(* Host-side OpenULINK driver (src/jtag/drivers/ulink.c): the command      *)
(* pipeline from abstract JTAG requests to USB bulk transfers.             *)
(*                                                                         *)
(* The driver state (command queue, TAP follower, inbound buffers) and the *)
(* position inside ulink_init / ulink_execute_queue / ulink_queue_scan are *)
(* the variables; every USB transfer outcome is an input chosen by \E.     *)
(***************************************************************************)
EXTENDS Integers, Sequences, FiniteSets, TLC

VARIABLES
  pc,                \* position: "start", "idle", "dispatch", "scan", "dead"
  queue,             \* device->queue_start .. queue_end, as a sequence of ulink_cmd
  commands_in_queue, \* device->commands_in_queue
  tap_state,         \* TAP follower: tap_get_state()
  tap_end_state,     \* TAP follower: tap_get_end_state()
  bufs,              \* heap of IN payload arrays (payload_in_start targets)
  scan,              \* locals of the running ulink_queue_scan
  nreq,              \* number of abstract requests dispatched so far
  calls,             \* number of ulink_execute_queue calls started
  ret,               \* what the last driver entry point returned
  trace,             \* history of the running entry point: requests, emitted
                     \* commands, USB transfers, result hand-offs
  delivered,         \* ids of the scan requests handed to jtag_read_buffer so far
  newcmd             \* the ulink_cmd_t a command generation helper is building,
                     \* and the payload arrays calloc has handed out for it

vars == <<pc, queue, commands_in_queue, tap_state, tap_end_state, bufs,
          scan, nreq, calls, ret, trace, delivered, newcmd>>

----------------------------------------------------------------------------
(* Bounds of the model *)

\* total number of abstract requests handed to the driver in one run
MaxRequests == 2
\* number of ulink_execute_queue calls in one run
MaxCalls == 2
\* how many direct calls of ulink_set_end_state a behaviour of SpecEndState makes
MaxSetCalls == 2
\* how many state moves a behaviour of SpecMove queues
MaxMoves == 2
\* how many calls of the speed functions a behaviour of SpecSpeed makes
MaxSpeedCalls == 2
\* how many calls of ulink_allocate_payload a behaviour of SpecAlloc makes
MaxAllocs == 3
\* how many direct calls of ulink_append_scan_cmd a behaviour of SpecAppend makes
MaxAppends == 2
\* how long the request list of the one call of SpecTerm is at most
MaxListLen == 2

----------------------------------------------------------------------------
(* Program constants *)

ERROR_OK == "ERROR_OK"
ERROR_FAIL == "ERROR_FAIL"

\* USB bulk packet size: uint8_t buffer[64], the (newsize > 64) test
PacketSize == 64
\* TDI/TDO bytes one scan command carries: 64 - 1 id - 5 header
ScanPayloadMax == 58

\* OpenULINK command ids (OpenULINK/include/msgtypes.h, order of spec 6.1)
CMD_SCAN_IN == 0
CMD_SLOW_SCAN_IN == 1
CMD_SCAN_OUT == 2
CMD_SLOW_SCAN_OUT == 3
CMD_SCAN_IO == 4
CMD_SLOW_SCAN_IO == 5
CMD_CLOCK_TMS == 6
CMD_SLOW_CLOCK_TMS == 7
CMD_CLOCK_TCK == 8
CMD_SLEEP_US == 9
CMD_SLEEP_MS == 10
CMD_GET_SIGNALS == 11
CMD_SET_SIGNALS == 12
CMD_CONFIGURE_TCK_FREQ == 13
CMD_SET_LEDS == 14
CMD_TEST == 15

\* signal bits of set-signals / get-signals (msgtypes.h)
SIGNAL_TRST == 8
SIGNAL_RESET == 32

SCAN_IN == "SCAN_IN"
SCAN_OUT == "SCAN_OUT"
SCAN_IO == "SCAN_IO"

JTAG_SCAN == "JTAG_SCAN"
JTAG_TLR_RESET == "JTAG_TLR_RESET"
JTAG_RUNTEST == "JTAG_RUNTEST"
JTAG_RESET == "JTAG_RESET"
JTAG_PATHMOVE == "JTAG_PATHMOVE"
JTAG_SLEEP == "JTAG_SLEEP"

----------------------------------------------------------------------------
(* TAP follower: the 16-state JTAG TAP graph and the TMS path table         *)

TAP_RESET == "RESET"
TAP_IDLE == "IDLE"
TAP_DRSHIFT == "DRSHIFT"
TAP_DRPAUSE == "DRPAUSE"
TAP_IRSHIFT == "IRSHIFT"
TAP_IRPAUSE == "IRPAUSE"

TapStates ==
  {"RESET", "IDLE", "DRSELECT", "DRCAPTURE", "DRSHIFT", "DREXIT1", "DRPAUSE",
   "DREXIT2", "DRUPDATE", "IRSELECT", "IRCAPTURE", "IRSHIFT", "IREXIT1",
   "IRPAUSE", "IREXIT2", "IRUPDATE"}

\* one TCK cycle with the given TMS level, on the standard TAP graph
tap_state_transition(s, tms) ==
  CASE s = "RESET"     -> IF tms = 1 THEN "RESET"    ELSE "IDLE"
    [] s = "IDLE"      -> IF tms = 1 THEN "DRSELECT" ELSE "IDLE"
    [] s = "DRSELECT"  -> IF tms = 1 THEN "IRSELECT" ELSE "DRCAPTURE"
    [] s = "DRCAPTURE" -> IF tms = 1 THEN "DREXIT1"  ELSE "DRSHIFT"
    [] s = "DRSHIFT"   -> IF tms = 1 THEN "DREXIT1"  ELSE "DRSHIFT"
    [] s = "DREXIT1"   -> IF tms = 1 THEN "DRUPDATE" ELSE "DRPAUSE"
    [] s = "DRPAUSE"   -> IF tms = 1 THEN "DREXIT2"  ELSE "DRPAUSE"
    [] s = "DREXIT2"   -> IF tms = 1 THEN "DRUPDATE" ELSE "DRSHIFT"
    [] s = "DRUPDATE"  -> IF tms = 1 THEN "DRSELECT" ELSE "IDLE"
    [] s = "IRSELECT"  -> IF tms = 1 THEN "RESET"    ELSE "IRCAPTURE"
    [] s = "IRCAPTURE" -> IF tms = 1 THEN "IREXIT1"  ELSE "IRSHIFT"
    [] s = "IRSHIFT"   -> IF tms = 1 THEN "IREXIT1"  ELSE "IRSHIFT"
    [] s = "IREXIT1"   -> IF tms = 1 THEN "IRUPDATE" ELSE "IRPAUSE"
    [] s = "IRPAUSE"   -> IF tms = 1 THEN "IREXIT2"  ELSE "IRPAUSE"
    [] s = "IREXIT2"   -> IF tms = 1 THEN "IRUPDATE" ELSE "IRSHIFT"
    [] OTHER           -> IF tms = 1 THEN "DRSELECT" ELSE "IDLE"

\* the states the TMS path table is defined for (tap_move_ndx)
MoveStates ==
  <<"RESET", "IDLE", "DRSHIFT", "DRPAUSE", "IRSHIFT", "IRPAUSE">>

tap_move_ndx(s) == CHOOSE i \in 1..6 : MoveStates[i] = s

\* tap_is_state_stable: the states a TMS path may start or end in.  The shift
\* states are among them: ulink_queue_scan hands them to ulink_set_end_state.
tap_is_state_stable(s) == \E i \in 1..6 : MoveStates[i] = s

\* <<TMS bits (bit 0 first on the wire), number of bits>>, row = from, column = to
tms_seqs ==
  << \* to: RESET         IDLE            DRSHIFT         DRPAUSE         IRSHIFT         IRPAUSE
     << <<127, 7>>,   <<0, 7>>,      <<5, 5>>,      <<10, 5>>,     <<13, 6>>,     <<22, 6>> >>,  \* RESET
     << <<127, 7>>,   <<0, 7>>,      <<1, 3>>,      <<5, 4>>,      <<3, 4>>,      <<11, 5>> >>,  \* IDLE
     << <<127, 7>>,   <<3, 3>>,      <<7, 5>>,      <<1, 2>>,      <<15, 6>>,     <<47, 7>> >>,  \* DRSHIFT
     << <<127, 7>>,   <<3, 3>>,      <<1, 2>>,      <<0, 1>>,      <<15, 6>>,     <<47, 7>> >>,  \* DRPAUSE
     << <<127, 7>>,   <<3, 3>>,      <<7, 5>>,      <<23, 6>>,     <<15, 6>>,     <<1, 2>> >>,   \* IRSHIFT
     << <<127, 7>>,   <<3, 3>>,      <<7, 5>>,      <<23, 6>>,     <<1, 2>>,      <<0, 1>> >>    \* IRPAUSE
  >>

tap_get_tms_path(from, to) == tms_seqs[tap_move_ndx(from)][tap_move_ndx(to)][1]

tap_get_tms_path_len(from, to) == tms_seqs[tap_move_ndx(from)][tap_move_ndx(to)][2]

----------------------------------------------------------------------------
(* Abstract requests, wire commands, history events, inbound buffers        *)

NULL == 0

\* an abstract request (struct jtag_command), one shape for every kind; id
\* tells two requests apart (the address of the struct), 0 = no request
Req(type, scan_type, bits, ir_scan, end_state, num_cycles, trst, srst, us) ==
  [id |-> 0, type |-> type, scan_type |-> scan_type, bits |-> bits,
   ir_scan |-> ir_scan, end_state |-> end_state, num_cycles |-> num_cycles,
   trst |-> trst, srst |-> srst, us |-> us]

NoOrigin == Req("none", "none", 0, FALSE, "RESET", 0, FALSE, FALSE, 0)

\* struct ulink_cmd.  payload_in_start is the index of the IN array in bufs
\* (NULL = none), payload_in the offset into it where this command stores,
\* cmd_origin the request the pointer leads to.
ulink_cmd(id, out, in_start, in_off, in_size, pp, free_in, origin) ==
  [id |-> id, payload_out |-> out, payload_in_start |-> in_start,
   payload_in |-> in_off, payload_in_size |-> in_size,
   needs_postprocessing |-> pp, free_payload_in_start |-> free_in,
   cmd_origin |-> origin]

NoCmd == ulink_cmd(-1, <<>>, NULL, 0, 0, FALSE, FALSE, NoOrigin)

\* one entry of the history of the current call.  kind is "req", "done", "emit"
\* (a wire command is handed to ulink_append_queue), "out" / "in"
\* (usb_bulk_write / usb_bulk_read on endpoint 2; count = bytes expected,
\* r = libusb's return value; batch of an "out" = the request each command of
\* the packet stems from), "pp" (jtag_read_buffer on a scan's result
\* array; count = how many bytes of the array a bulk IN has filled), "xret"
\* (ulink_execute_queued_commands returns r).  cmds of an "out" = the sizes,
\* the post-processing flag and the request of each command of the queue the
\* packet was built from; views of an "out" / "xret" = what the payload_in
\* slices of the queued commands hold at that moment.
EvT(kind, cmd, data, count, r, tap) ==
  [kind |-> kind, call |-> calls, cmd |-> cmd, data |-> data,
   count |-> count, r |-> r, tap |-> tap, batch |-> <<>>, cmds |-> <<>>,
   views |-> <<>>]

Ev(kind, cmd, data, count, r) == EvT(kind, cmd, data, count, r, "-")

\* a request enters its translator with the follower in state tap ("req"),
\* the translator returns r (0 = ERROR_OK, -1 = ERROR_FAIL) leaving the
\* follower in state tap ("done")
OriginOnly(origin) == ulink_cmd(-1, <<>>, NULL, 0, 0, FALSE, FALSE, origin)

ReqEv(origin, tap) == EvT("req", OriginOnly(origin), <<>>, 0, 0, tap)

DoneEv(origin, result, tap) ==
  EvT("done", OriginOnly(origin), <<>>, 0,
      IF result = ERROR_OK THEN 0 ELSE -1, tap)

\* calloc(size): a zeroed array; written: the offsets a bulk IN has filled;
\* frees: how often free() was called on it, freed_by: the command whose
\* removal from the queue freed it last, owner: the request it was allocated
\* for (NULL: none)
NewBuf(size, owner) ==
  [data |-> [j \in 1..size |-> 0], frees |-> 0, written |-> {},
   freed_by |-> NoCmd, owner |-> owner]

\* the state the queue helpers and translators work on
Dev == [queue |-> queue, ciq |-> commands_in_queue, bufs |-> bufs,
        trace |-> trace, delivered |-> delivered,
        tap |-> tap_state, tap_end |-> tap_end_state]

\* a result without its return code
Strip(R) == [f \in DOMAIN R \ {"ret"} |-> R[f]]

Fail(D) == Strip(D) @@ [ret |-> ERROR_FAIL]

Ok(D) == Strip(D) @@ [ret |-> ERROR_OK]

\* outcomes of one batch exchange: both transfers fine, bulk OUT failed
\* (ret < 0) or short, bulk IN failed, short or longer than expected
UsbOutcomes == {"ok", "wfail", "wshort", "rfail", "rshort", "rlong"}

\* the outcomes tried for each of the three exchanges a runtest can cause
RuntestOutcomes == {"ok", "wfail", "rshort"}

\* the entries of one kind of the history t
OfKindIn(t, kind) == SelectSeq(t, LAMBDA e : e.kind = kind)

\* number of bytes the adapter has sent on bulk IN in the history t
RECURSIVE BytesReceived(_)
BytesReceived(t) ==
  IF t = <<>> THEN 0
  ELSE (IF Head(t).kind = "in" THEN Len(Head(t).data) ELSE 0) + BytesReceived(Tail(t))

\* the k-th byte the adapter sends on bulk IN during a call
AdapterByte(call, k) == (call * 97 + k * 5 + 3) % 256

----------------------------------------------------------------------------
(* Payload allocation: ulink_allocate_payload                               *)

PAYLOAD_DIRECTION_OUT == "OUT"
PAYLOAD_DIRECTION_IN == "IN"

\* "calloc(1, sizeof(ulink_cmd_t))": every pointer NULL, every size 0.
\* Pointers to payload arrays are indices into heap.
NewCommand ==
  [payload_out |-> NULL, payload_out_size |-> 0, payload_in_start |-> NULL,
   payload_in |-> NULL, payload_in_size |-> 0, free_payload_in_start |-> FALSE]

\* a fresh command and no payload array yet; heap holds the size of each
\* array calloc has returned
NoNewCmd == [cmd |-> NewCommand, heap |-> <<>>]

\* faulty variant: a second allocation replaces the first
ulink_allocate_payload_overwrites(C, size, direction, calloc_ok) ==
  LET payload == IF calloc_ok THEN Len(C.heap) + 1 ELSE NULL
      heap == IF calloc_ok THEN Append(C.heap, size) ELSE C.heap
  IN IF payload = NULL
     THEN [cmd |-> C.cmd, heap |-> heap, ret |-> ERROR_FAIL]
     ELSE IF direction = PAYLOAD_DIRECTION_OUT
     THEN [cmd |-> [C.cmd EXCEPT !.payload_out = payload,
                                 !.payload_out_size = size % 256],
           heap |-> heap, ret |-> ERROR_OK]
     ELSE [cmd |-> [C.cmd EXCEPT !.payload_in_start = payload,
                                 !.payload_in = payload,
                                 !.payload_in_size = size % 256,
                                 !.free_payload_in_start = TRUE],
           heap |-> heap, ret |-> ERROR_OK]

\* ulink_allocate_payload on the command C.cmd: the array is allocated first,
\* then the direction's pointer is looked at.  The sizes are uint8_t fields.
ulink_allocate_payload(C, size, direction, calloc_ok) ==
  LET payload == IF calloc_ok THEN Len(C.heap) + 1 ELSE NULL
      heap == IF calloc_ok THEN Append(C.heap, size) ELSE C.heap
  IN IF payload = NULL
     THEN [cmd |-> C.cmd, heap |-> heap, ret |-> ERROR_FAIL]
     ELSE IF direction = PAYLOAD_DIRECTION_OUT
     THEN IF C.cmd.payload_out # NULL
          THEN [cmd |-> C.cmd, heap |-> heap, ret |-> ERROR_FAIL]
          ELSE [cmd |-> [C.cmd EXCEPT !.payload_out = payload,
                                      !.payload_out_size = size % 256],
                heap |-> heap, ret |-> ERROR_OK]
     ELSE IF C.cmd.payload_in_start # NULL
          THEN [cmd |-> C.cmd, heap |-> heap, ret |-> ERROR_FAIL]
          ELSE [cmd |-> [C.cmd EXCEPT !.payload_in_start = payload,
                                      !.payload_in = payload,
                                      !.payload_in_size = size % 256,
                                      !.free_payload_in_start = TRUE],
                heap |-> heap, ret |-> ERROR_OK]

----------------------------------------------------------------------------
(* Command queue helpers                                                    *)

RECURSIVE ulink_get_queue_size_out(_)
ulink_get_queue_size_out(q) ==
  IF q = <<>> THEN 0
  ELSE Len(Head(q).payload_out) + 1 + ulink_get_queue_size_out(Tail(q))

RECURSIVE ulink_get_queue_size_in(_)
ulink_get_queue_size_in(q) ==
  IF q = <<>> THEN 0
  ELSE Head(q).payload_in_size + ulink_get_queue_size_in(Tail(q))

\* the packet ulink_execute_queued_commands builds: [id, payload_out...] per command
RECURSIVE SerializeQueue(_)
SerializeQueue(q) ==
  IF q = <<>> THEN <<>>
  ELSE <<Head(q).id>> \o Head(q).payload_out \o SerializeQueue(Tail(q))

\* current->payload_in[i] = buffer[index_in] for one command
WriteBackCmd(b, c, packet, index_in) ==
  IF c.payload_in_size = 0 THEN b
  ELSE [b EXCEPT ![c.payload_in_start] =
         [data |-> [j \in DOMAIN b[c.payload_in_start].data |->
                      IF j > c.payload_in /\ j <= c.payload_in + c.payload_in_size
                      THEN packet[index_in + (j - c.payload_in)]
                      ELSE b[c.payload_in_start].data[j]],
          frees |-> b[c.payload_in_start].frees,
          freed_by |-> b[c.payload_in_start].freed_by,
          owner |-> b[c.payload_in_start].owner,
          written |-> b[c.payload_in_start].written
                      \cup ((c.payload_in + 1)..(c.payload_in + c.payload_in_size))]]

\* faulty variant: index_in is not advanced, every command reads the packet
\* from its start
RECURSIVE WriteBackInNoAdvance(_, _, _, _)
WriteBackInNoAdvance(q, b, packet, index_in) ==
  IF q = <<>> THEN b
  ELSE WriteBackInNoAdvance(Tail(q), WriteBackCmd(b, Head(q), packet, index_in),
                            packet, index_in)

\* "Write back IN payload data": the commands of q in order, each taking its
\* payload_in_size bytes from the packet
RECURSIVE WriteBackIn(_, _, _, _)
WriteBackIn(q, b, packet, index_in) ==
  IF q = <<>> THEN b
  ELSE WriteBackIn(Tail(q), WriteBackCmd(b, Head(q), packet, index_in), packet,
                   index_in + Head(q).payload_in_size)

UsbWriteRet(o, count_out) ==
  CASE o = "wfail" -> -1
    [] o = "wshort" -> count_out - 1
    [] OTHER -> count_out

\* usb_bulk_read is asked for 64 bytes, whatever count_in is
UsbReadRet(o, count_in) ==
  CASE o = "rfail" -> -1
    [] o = "rshort" -> count_in - 1
    [] o = "rlong" -> IF count_in < PacketSize THEN count_in + 1 ELSE PacketSize
    [] OTHER -> count_in

\* payload_out_size, payload_in_size, needs_postprocessing and the request
\* of each command of q
QueueSummary(q) ==
  [k \in 1..Len(q) |->
     [payload_out_size |-> Len(q[k].payload_out),
      payload_in_size |-> q[k].payload_in_size,
      needs_postprocessing |-> q[k].needs_postprocessing,
      origin |-> q[k].cmd_origin.id]]

\* what the payload_in slice of each command of q holds
InboundViews(q, b) ==
  [k \in 1..Len(q) |->
     [j \in 1..q[k].payload_in_size |->
        IF q[k].payload_in + j \in DOMAIN b[q[k].payload_in_start].data
        THEN b[q[k].payload_in_start].data[q[k].payload_in + j]
        ELSE -1]]

\* faulty variant: a longer answer is taken too
BulkInAcceptedAtLeast(rret, count_in) == rret >= count_in

\* faulty variant: any answer that is not a libusb error is taken
BulkInAcceptedAny(rret, count_in) == rret >= 0

\* "if (ret < 0) return ERROR_FAIL; if (ret != count_in) return ERROR_FAIL;"
BulkInAccepted(rret, count_in) == ~(rret < 0) /\ ~(rret # count_in)

\* ulink_execute_queued_commands: one bulk OUT, and a bulk IN when IN bytes
\* are expected.  Returns the device state with field ret added.  inbuf is
\* buffer[64] after the bulk IN: the received bytes, then what the packet
\* left there (the write-back reads below count_in only).
ulink_execute_queued_commands(D, o) ==
  LET buffer == SerializeQueue(D.queue)
      count_out == Len(buffer)
      count_in == ulink_get_queue_size_in(D.queue)
      wret == UsbWriteRet(o, count_out)
      views == InboundViews(D.queue, D.bufs)
      t1 == Append(D.trace,
                   [Ev("out", NoCmd, buffer, count_out, wret) EXCEPT
                      !.batch = [k \in 1..Len(D.queue) |-> D.queue[k].cmd_origin.id],
                      !.cmds = QueueSummary(D.queue),
                      !.views = views])
      rret == UsbReadRet(o, count_in)
      got == IF rret < 0 THEN 0 ELSE rret
      base == BytesReceived(D.trace)
      packet == [j \in 1..got |-> AdapterByte(calls, base + j)]
      inbuf == [j \in 1..PacketSize |->
                  IF j <= got THEN packet[j]
                  ELSE IF j <= count_out THEN buffer[j] ELSE 0]
      t2 == Append(t1, Ev("in", NoCmd, packet, count_in, rret))
      nbufs == WriteBackIn(D.queue, D.bufs, inbuf, 0)
      xfail == [Ev("xret", NoCmd, <<>>, 0, -1) EXCEPT !.views = views]
      xok == [Ev("xret", NoCmd, <<>>, 0, 0) EXCEPT !.views = views]
      xin == [Ev("xret", NoCmd, <<>>, 0, 0) EXCEPT
                !.views = InboundViews(D.queue, nbufs)]
  IN IF wret < 0 \/ wret # count_out
     THEN [D EXCEPT !.trace = Append(t1, xfail)] @@ [ret |-> ERROR_FAIL]
     ELSE IF count_in > 0
     THEN IF BulkInAccepted(rret, count_in)
          THEN [D EXCEPT !.trace = Append(t2, xin), !.bufs = nbufs]
               @@ [ret |-> ERROR_OK]
          ELSE [D EXCEPT !.trace = Append(t2, xfail)] @@ [ret |-> ERROR_FAIL]
     ELSE [D EXCEPT !.trace = Append(t1, xok)] @@ [ret |-> ERROR_OK]

\* ulink_post_process_scan: IN and IO scans hand payload_in_start to
\* jtag_read_buffer, OUT scans do nothing
ulink_post_process_scan(c, b) ==
  IF c.cmd_origin.scan_type \in {SCAN_IN, SCAN_IO}
  THEN <<Ev("pp", c, b[c.payload_in_start].data,
            Cardinality(b[c.payload_in_start].written), 0)>>
  ELSE <<>>

\* the hand-offs ulink_post_process_queue makes for the commands of q, in order
RECURSIVE PostProcessEvents(_, _)
PostProcessEvents(q, b) ==
  IF q = <<>> THEN <<>>
  ELSE LET c == Head(q)
           evs == IF c.needs_postprocessing /\ c.cmd_origin.id # NULL
                     /\ c.cmd_origin.type = JTAG_SCAN
                  THEN ulink_post_process_scan(c, b)
                  ELSE <<>>
       IN evs \o PostProcessEvents(Tail(q), b)

ulink_post_process_queue(D) ==
  LET evs == PostProcessEvents(D.queue, D.bufs)
  IN [D EXCEPT !.trace = @ \o evs,
               !.delivered = @ \o [k \in 1..Len(evs) |-> evs[k].cmd.cmd_origin.id]]
     @@ [ret |-> ERROR_OK]

\* free(payload_in_start) of every command that owns its IN array; what a
\* freed array held is gone
RECURSIVE FreeOwned(_, _)
FreeOwned(q, b) ==
  IF q = <<>> THEN b
  ELSE LET c == Head(q)
           nb == IF c.free_payload_in_start /\ c.payload_in_start # NULL
                 THEN [b EXCEPT ![c.payload_in_start] =
                         [data |-> <<>>, frees |-> @.frees + 1, written |-> {},
                          freed_by |-> c, owner |-> @.owner]]
                 ELSE b
       IN FreeOwned(Tail(q), nb)

ulink_clear_queue(D) ==
  [D EXCEPT !.bufs = FreeOwned(D.queue, D.bufs), !.queue = <<>>, !.ciq = 0]

\* faulty variant: a command that fills a budget to the last byte does not fit
QueueOverflowsAtLimit(newsize_out, newsize_in) ==
  (newsize_out >= PacketSize) \/ (newsize_in >= PacketSize)

\* faulty variant: the IN budget is not looked at
QueueOverflowsOutOnly(newsize_out, newsize_in) == newsize_out > PacketSize

\* "Check if the current command can be appended to the queue"
QueueOverflows(newsize_out, newsize_in) ==
  (newsize_out > PacketSize) \/ (newsize_in > PacketSize)

\* ulink_append_queue: flush first when the command does not fit.  The "emit"
\* entry of the history holds the command and, as cmds, the queue the call
\* found, and as tap the state the follower is in at the call.
ulink_append_queue(D, cmd, o) ==
  LET newsize_out == ulink_get_queue_size_out(D.queue) + 1 + Len(cmd.payload_out)
      newsize_in == ulink_get_queue_size_in(D.queue) + cmd.payload_in_size
      D0 == [D EXCEPT !.trace =
               Append(@, [EvT("emit", cmd, <<>>, 0, 0, D.tap) EXCEPT
                            !.cmds = QueueSummary(D.queue)])]
      X == ulink_execute_queued_commands(D0, o)
      P == ulink_post_process_queue(Strip(X))
      D1 == IF QueueOverflows(newsize_out, newsize_in)
            THEN ulink_clear_queue(Strip(P))
            ELSE D0
  IN IF QueueOverflows(newsize_out, newsize_in) /\ X.ret # ERROR_OK
     THEN X
     ELSE [D1 EXCEPT !.queue = Append(@, cmd), !.ciq = @ + 1]
          @@ [ret |-> ERROR_OK]

----------------------------------------------------------------------------
(* Command generation: ulink_append_*_cmd                                   *)

DIV_ROUND_UP(m, n) == (m + n - 1) \div n

\* "bits_last_byte = scan_size_bits % 8; if (bits_last_byte == 0) = 8"
BitsLastByte(scan_size_bits) ==
  IF scan_size_bits % 8 = 0 THEN 8 ELSE scan_size_bits % 8

\* payload_out[0..4] of a scan command
ScanHeader(scan_size_bytes, bits_last_byte, tms_count_start, tms_sequence_start, tms_count_end, tms_sequence_end) ==
  << scan_size_bytes % 256, bits_last_byte % 256,
     ((tms_count_start % 16) * 16) + (tms_count_end % 16),
     tms_sequence_start, tms_sequence_end >>

\* variant that selects the slow command ids
ScanCmdIdSlow(scan_type) ==
  CASE scan_type = SCAN_IN -> CMD_SLOW_SCAN_IN
    [] scan_type = SCAN_OUT -> CMD_SLOW_SCAN_OUT
    [] OTHER -> CMD_SLOW_SCAN_IO

ScanCmdId(scan_type) ==
  CASE scan_type = SCAN_IN -> CMD_SCAN_IN
    [] scan_type = SCAN_OUT -> CMD_SCAN_OUT
    [] OTHER -> CMD_SCAN_IO

\* faulty variant: the size of the command is not checked
ulink_append_scan_cmd_unchecked(D, scan_type, scan_size_bits, tdi, tdo_start, tdo, tms_count_start, tms_sequence_start, tms_count_end, tms_sequence_end, origin, postprocess, o) ==
  LET scan_size_bytes == DIV_ROUND_UP(scan_size_bits, 8)
      header == ScanHeader(scan_size_bytes, BitsLastByte(scan_size_bits),
                           tms_count_start, tms_sequence_start, tms_count_end,
                           tms_sequence_end)
      has_in == scan_type \in {SCAN_IN, SCAN_IO}
  IN ulink_append_queue(D,
       ulink_cmd(ScanCmdId(scan_type),
                 IF scan_type \in {SCAN_OUT, SCAN_IO}
                 THEN header \o SubSeq(tdi, 1, scan_size_bytes) ELSE header,
                 IF has_in THEN tdo_start ELSE NULL,
                 IF has_in THEN tdo ELSE 0,
                 IF has_in THEN scan_size_bytes ELSE 0,
                 postprocess, postprocess, origin),
       o)

\* tdi: the caller's TDI bytes from the chunk's position on; tdo_start / tdo:
\* the shared result array and this chunk's offset in it
ulink_append_scan_cmd(D, scan_type, scan_size_bits, tdi, tdo_start, tdo, tms_count_start, tms_sequence_start, tms_count_end, tms_sequence_end, origin, postprocess, o) ==
  LET scan_size_bytes == DIV_ROUND_UP(scan_size_bits, 8)
      bits_last_byte == BitsLastByte(scan_size_bits)
      header == ScanHeader(scan_size_bytes, bits_last_byte, tms_count_start,
                           tms_sequence_start, tms_count_end, tms_sequence_end)
      out == IF scan_type \in {SCAN_OUT, SCAN_IO}
             THEN header \o SubSeq(tdi, 1, scan_size_bytes)
             ELSE header
      has_in == scan_type \in {SCAN_IN, SCAN_IO}
      cmd == ulink_cmd(ScanCmdId(scan_type), out,
                       IF has_in THEN tdo_start ELSE NULL,
                       IF has_in THEN tdo ELSE 0,
                       IF has_in THEN scan_size_bytes ELSE 0,
                       postprocess, postprocess, origin)
  IN IF scan_size_bits > ScanPayloadMax * 8
     THEN Fail(D)
     ELSE ulink_append_queue(D, cmd, o)

ulink_append_clock_tms_cmd(D, count, sequence, o) ==
  ulink_append_queue(D,
    ulink_cmd(CMD_CLOCK_TMS, <<count, sequence>>, NULL, 0, 0, FALSE, FALSE, NoOrigin),
    o)

\* count is a uint16_t parameter
ulink_append_clock_tck_cmd(D, count, o) ==
  LET c16 == count % 65536
  IN ulink_append_queue(D,
       ulink_cmd(CMD_CLOCK_TCK, <<c16 % 256, (c16 \div 256) % 256>>,
                 NULL, 0, 0, FALSE, FALSE, NoOrigin),
       o)

\* the two IN bytes are a fresh array the command owns (ulink_allocate_payload)
ulink_append_get_signals_cmd(D, o) ==
  ulink_append_queue([D EXCEPT !.bufs = Append(@, NewBuf(2, NULL))],
    ulink_cmd(CMD_GET_SIGNALS, <<>>, Len(D.bufs) + 1, 0, 2, TRUE, TRUE, NoOrigin),
    o)

ulink_append_set_signals_cmd(D, low, high, o) ==
  ulink_append_queue(D,
    ulink_cmd(CMD_SET_SIGNALS, <<low, high>>, NULL, 0, 0, FALSE, FALSE, NoOrigin),
    o)

\* us is a uint32_t; two payload bytes
ulink_append_sleep_cmd(D, us, o) ==
  ulink_append_queue(D,
    ulink_cmd(CMD_SLEEP_US, <<us % 256, (us \div 256) % 256>>,
              NULL, 0, 0, FALSE, FALSE, NoOrigin),
    o)

ulink_append_test_cmd(D, o) ==
  ulink_append_queue(D,
    ulink_cmd(CMD_TEST, <<170>>, NULL, 0, 0, FALSE, FALSE, NoOrigin),
    o)

----------------------------------------------------------------------------
(* Request translators other than scan                                      *)

\* faulty variant: the state is taken without asking the follower
ulink_set_end_state_unchecked(D, endstate) ==
  [D EXCEPT !.tap_end = endstate,
            !.trace = Append(@, EvT("set_end_state", NoCmd,
                                    <<D.tap_end, endstate>>, 0, 0, endstate))]
  @@ [exited |-> FALSE]

\* ulink_set_end_state: tap_set_end_state(endstate) when the follower calls
\* endstate stable, else LOG_ERROR and exit(EXIT_FAILURE): the call does not
\* return (exited).  The history gets a "set_end_state" entry: tap = endstate,
\* data = <<end state before, end state after>>, r = 0 when the call returned.
ulink_set_end_state(D, endstate) ==
  IF tap_is_state_stable(endstate)
  THEN [D EXCEPT !.tap_end = endstate,
                 !.trace = Append(@, EvT("set_end_state", NoCmd,
                                         <<D.tap_end, endstate>>, 0, 0, endstate))]
       @@ [exited |-> FALSE]
  ELSE [D EXCEPT !.trace = Append(@, EvT("set_end_state", NoCmd,
                                         <<D.tap_end, D.tap_end>>, 0, -1, endstate))]
       @@ [exited |-> TRUE]

\* the device state a call of ulink_set_end_state leaves
Returned(S) == [f \in DOMAIN S \ {"exited"} |-> S[f]]

\* faulty variant: the path is looked up from the end state to the current one
ulink_queue_statemove_reversed(D, o) ==
  LET tms_sequence == tap_get_tms_path(D.tap_end, D.tap)
      tms_count == tap_get_tms_path_len(D.tap_end, D.tap)
      R == ulink_append_clock_tms_cmd(D, tms_count, tms_sequence, o)
  IN IF D.tap = D.tap_end THEN Ok(D)
     ELSE IF R.ret = ERROR_OK THEN [R EXCEPT !.tap = D.tap_end]
     ELSE R

\* ulink_queue_statemove: D.tap -> D.tap_end
ulink_queue_statemove(D, o) ==
  LET tms_sequence == tap_get_tms_path(D.tap, D.tap_end)
      tms_count == tap_get_tms_path_len(D.tap, D.tap_end)
      R == ulink_append_clock_tms_cmd(D, tms_count, tms_sequence, o)
  IN IF D.tap = D.tap_end THEN Ok(D)
     ELSE IF R.ret = ERROR_OK THEN [R EXCEPT !.tap = D.tap_end]
     ELSE R

\* faulty variant: the follower is not told about the reset
ulink_queue_tlr_reset_untracked(D, o) == ulink_append_clock_tms_cmd(D, 5, 255, o)

ulink_queue_tlr_reset(D, o) ==
  LET R == ulink_append_clock_tms_cmd(D, 5, 255, o)
  IN IF R.ret = ERROR_OK THEN [R EXCEPT !.tap = TAP_RESET] ELSE R

\* "Only perform statemove if the TAP currently isn't in the TAP_IDLE state";
\* the return value of the state move is dropped
RuntestToIdle(D, o) ==
  IF D.tap # TAP_IDLE
  THEN Ok(ulink_queue_statemove(Returned(ulink_set_end_state(D, TAP_IDLE)), o))
  ELSE Ok(D)

\* "Generate the clock cycles"
RuntestClock(D, req, o) == ulink_append_clock_tck_cmd(D, req.num_cycles, o)

\* "Move to end state specified in command", unless the clock-tck command
\* could not be appended; the return value of the state move is dropped
RuntestToEnd(A, req, o) ==
  IF A.ret # ERROR_OK THEN A
  ELSE IF req.end_state # A.tap
  THEN Ok(ulink_queue_statemove([Strip(A) EXCEPT !.tap_end = req.end_state], o))
  ELSE Ok(A)

\* ulink_queue_runtest: the three stages in sequence, each on the state the
\* stage before has left
ulink_queue_runtest(D, req, o1, o2, o3) ==
  CHOOSE R \in {RuntestToEnd(A, req, o3) :
                  A \in {RuntestClock(Strip(M1), req, o2) :
                           M1 \in {RuntestToIdle(D, o1)}}} : TRUE

\* faulty variant: the masks are passed the other way round
ulink_queue_reset_swapped(D, req, o) ==
  LET D1 == IF req.trst THEN [D EXCEPT !.tap = TAP_RESET] ELSE D
      high == (IF req.trst THEN SIGNAL_TRST ELSE 0)
              + (IF req.srst THEN SIGNAL_RESET ELSE 0)
      low == (IF req.trst THEN 0 ELSE SIGNAL_TRST)
             + (IF req.srst THEN 0 ELSE SIGNAL_RESET)
  IN ulink_append_set_signals_cmd(D1, high, low, o)

ulink_queue_reset(D, req, o) ==
  LET D1 == IF req.trst THEN [D EXCEPT !.tap = TAP_RESET] ELSE D
      high == (IF req.trst THEN SIGNAL_TRST ELSE 0)
              + (IF req.srst THEN SIGNAL_RESET ELSE 0)
      low == (IF req.trst THEN 0 ELSE SIGNAL_TRST)
             + (IF req.srst THEN 0 ELSE SIGNAL_RESET)
  IN ulink_append_set_signals_cmd(D1, low, high, o)

\* variant that reports the missing implementation
ulink_queue_pathmove_unsupported(D) == Fail(D)

\* "TODO: Implement this!  return ERROR_OK;"
ulink_queue_pathmove(D) == Ok(D)

ulink_queue_sleep(D, req, o) == ulink_append_sleep_cmd(D, req.us, o)

----------------------------------------------------------------------------
(* The scan translator: ulink_queue_scan, one step per loop iteration       *)

\* jtag_build_buffer: the caller's TDI bits packed into bytes
TdiBuffer(scan_size_bytes) == [j \in 1..scan_size_bytes |-> (j * 7 + 11) % 256]

NoScan ==
  [origin |-> NoOrigin, entry_tap |-> TAP_RESET, type |-> SCAN_OUT,
   scan_size_bits |-> 0, scan_size_bytes |-> 0,
   bits_last_scan |-> 0, tdi_buffer_start |-> <<>>, tdi_buffer |-> 0,
   tdo_buffer_start |-> NULL, tdo_buffer |-> 0,
   first_tms |-> <<0, 0>>, last_tms |-> <<0, 0>>,
   tms_pause |-> <<0, 0>>, tms_resume |-> <<0, 0>>,
   bytecount |-> 0, end_state |-> TAP_RESET]

\* "Determine size of last shift command".  The uint32_t difference wraps when
\* it is negative and is read back as the same negative int by the int
\* parameter of ulink_append_scan_cmd: the value is kept as that int.
BitsLastScan(scan_size_bits, scan_size_bytes) ==
  scan_size_bits - ((scan_size_bytes \div ScanPayloadMax) * ScanPayloadMax * 8)

ShiftState(ir_scan) == IF ir_scan THEN TAP_IRSHIFT ELSE TAP_DRSHIFT

PauseState(ir_scan) == IF ir_scan THEN TAP_IRPAUSE ELSE TAP_DRPAUSE

\* <<tms count, tms sequence>> of a path
TmsPath(from, to) == <<tap_get_tms_path_len(from, to), tap_get_tms_path(from, to)>>

\* "TAP state transitions for split scans"
SplitPauseTms(ir_scan) == TmsPath(ShiftState(ir_scan), PauseState(ir_scan))

SplitResumeTms(ir_scan) == TmsPath(PauseState(ir_scan), ShiftState(ir_scan))

\* the locals of ulink_queue_scan when its loop is entered; tap is the
\* follower's state on entry, tdo_buf the freshly allocated result array
ScanLocals(req, tap, tdo_buf) ==
  LET bytes == DIV_ROUND_UP(req.bits, 8)
  IN [origin |-> req, entry_tap |-> tap, type |-> req.scan_type,
      scan_size_bits |-> req.bits, scan_size_bytes |-> bytes,
      bits_last_scan |-> BitsLastScan(req.bits, bytes),
      tdi_buffer_start |-> IF req.scan_type \in {SCAN_OUT, SCAN_IO}
                           THEN TdiBuffer(bytes) ELSE <<>>,
      tdi_buffer |-> 0,
      tdo_buffer_start |-> IF req.scan_type \in {SCAN_IN, SCAN_IO}
                           THEN tdo_buf ELSE NULL,
      tdo_buffer |-> 0,
      first_tms |-> TmsPath(tap, ShiftState(req.ir_scan)),
      last_tms |-> TmsPath(ShiftState(req.ir_scan), req.end_state),
      tms_pause |-> SplitPauseTms(req.ir_scan),
      tms_resume |-> SplitResumeTms(req.ir_scan),
      bytecount |-> bytes, end_state |-> req.end_state]

\* "if (bytecount == scan_size_bytes) first scan, else resume from previous scan"
ChunkStartTms(s) ==
  IF s.bytecount = s.scan_size_bytes THEN s.first_tms ELSE s.tms_resume

\* faulty variant: every command ends with the path to the end state
ChunkEndTmsAlwaysLast(s) == s.last_tms

\* "Full scan, at least one scan will follow": pause; otherwise the last path
ChunkEndTms(s) ==
  IF s.bytecount > ScanPayloadMax THEN s.tms_pause ELSE s.last_tms

\* the scan_size_bits argument of the iteration's ulink_append_scan_cmd
ChunkSizeBits(s) ==
  IF s.bytecount >= ScanPayloadMax THEN ScanPayloadMax * 8
  ELSE s.bits_last_scan

\* faulty variant: every command of a scan asks for post-processing
ChunkPostprocessAlways(s) == TRUE

\* the postprocess argument: true for the last command of the scan only
ChunkPostprocess(s) == ~(s.bytecount > ScanPayloadMax)

\* faulty variant: a full command does not count its bytes
ChunkNextBytecountStuck(s) ==
  IF s.bytecount > ScanPayloadMax THEN s.bytecount ELSE 0

\* faulty variant: the loop counts a whole packet per command
ChunkNextBytecountPacket(s) ==
  IF s.bytecount > PacketSize THEN s.bytecount - PacketSize ELSE 0

\* bytecount after the iteration
ChunkNextBytecount(s) ==
  IF s.bytecount > ScanPayloadMax THEN s.bytecount - ScanPayloadMax ELSE 0

\* faulty variant: the TDI pointer is never advanced
ChunkNextTdiStuck(s) == s.tdi_buffer

\* "Update TDI and TDO buffer pointers"
ChunkNextTdi(s) ==
  IF s.bytecount > ScanPayloadMax /\ s.type \in {SCAN_OUT, SCAN_IO}
  THEN s.tdi_buffer + ScanPayloadMax ELSE s.tdi_buffer

\* faulty variant: the TDO pointer is never advanced
ChunkNextTdoStuck(s) == s.tdo_buffer

ChunkNextTdo(s) ==
  IF s.bytecount > ScanPayloadMax /\ s.tdo_buffer_start # NULL
  THEN s.tdo_buffer + ScanPayloadMax ELSE s.tdo_buffer

\* one iteration of "while (bytecount > 0)": the append and its result
ScanIteration(D, s, o) ==
  ulink_append_scan_cmd(D, s.type, ChunkSizeBits(s),
    SubSeq(s.tdi_buffer_start, s.tdi_buffer + 1, Len(s.tdi_buffer_start)),
    s.tdo_buffer_start, s.tdo_buffer,
    ChunkStartTms(s)[1], ChunkStartTms(s)[2],
    ChunkEndTms(s)[1], ChunkEndTms(s)[2],
    s.origin, ChunkPostprocess(s), o)

\* faulty variant: the follower is left in the shift state
ScanFinalStateShift(s) == ShiftState(s.origin.ir_scan)

\* "Set current state to the end state requested by the command"
ScanFinalState(s) == s.end_state

----------------------------------------------------------------------------
(* ulink_execute_queue, one step per request and per scan loop iteration    *)

Commit(R) ==
  /\ queue' = R.queue
  /\ commands_in_queue' = R.ciq
  /\ bufs' = R.bufs
  /\ trace' = R.trace
  /\ delivered' = R.delivered
  /\ tap_state' = R.tap
  /\ tap_end_state' = R.tap_end

\* a call of ulink_execute_queue begins: cmd = jtag_command_queue
ExecuteQueueBegin ==
  /\ pc = "idle"
  /\ pc' = "dispatch"
  /\ calls' = calls + 1
  /\ ret' = "running"
  /\ trace' = <<>>
  /\ UNCHANGED <<queue, commands_in_queue, tap_state, tap_end_state, bufs, scan,
                 nreq, delivered, newcmd>>

\* "if (ret != ERROR_OK) return ret; cmd = cmd->next"
AfterTranslator(R, origin) ==
  /\ Commit([R EXCEPT !.trace = Append(@, DoneEv(origin, R.ret, R.tap))])
  /\ nreq' = origin.id
  /\ scan' = NoScan
  /\ UNCHANGED <<calls, newcmd>>
  /\ IF R.ret = ERROR_OK
     THEN pc' = "dispatch" /\ ret' = ret
     ELSE pc' = "idle" /\ ret' = R.ret

\* the device state when origin enters its translator
Enter(origin) == [Dev EXCEPT !.trace = Append(@, ReqEv(origin, tap_state))]

NextId(req) == [req EXCEPT !.id = nreq + 1]

\* exit(EXIT_FAILURE) inside a translator: the process is gone
ProcessExit(S) ==
  /\ Commit(Returned(S))
  /\ pc' = "dead"
  /\ UNCHANGED <<scan, calls, ret, newcmd>>

\* case JTAG_SCAN: ulink_queue_scan up to its loop
DispatchScan(req) ==
  /\ pc = "dispatch"
  /\ LET origin == NextId(req)
         has_tdo == req.scan_type \in {SCAN_IN, SCAN_IO}
         nbufs == IF has_tdo
                  THEN Append(bufs, NewBuf(DIV_ROUND_UP(req.bits, 8), origin.id))
                  ELSE bufs
         S == ulink_set_end_state([Enter(origin) EXCEPT !.bufs = nbufs],
                                  ShiftState(req.ir_scan))
     IN /\ nreq' = origin.id
        /\ IF S.exited
           THEN ProcessExit(S)
           ELSE /\ Commit([Returned(S) EXCEPT !.tap = ShiftState(req.ir_scan),
                                              !.tap_end = req.end_state])
                /\ scan' = ScanLocals(origin, tap_state, Len(nbufs))
                /\ pc' = "scan"
                /\ UNCHANGED <<calls, ret, newcmd>>

\* one iteration of the loop of ulink_queue_scan, and what follows the loop
\* when it was the last
ScanChunk(o) ==
  /\ pc = "scan"
  /\ LET R == ScanIteration(Dev, scan, o)
         n == ChunkNextBytecount(scan)
         done == R.ret # ERROR_OK \/ n = 0
         tap == IF R.ret = ERROR_OK /\ n = 0
                THEN ScanFinalState(scan) ELSE R.tap
         F == [R EXCEPT !.tap = tap,
                        !.trace = IF done
                                  THEN Append(@, DoneEv(scan.origin, R.ret, tap))
                                  ELSE @]
     IN /\ Commit(F)
        /\ IF R.ret # ERROR_OK
           THEN scan' = NoScan /\ pc' = "idle" /\ ret' = R.ret
           ELSE IF n = 0
           THEN scan' = NoScan /\ pc' = "dispatch" /\ ret' = ret
           ELSE /\ scan' = [scan EXCEPT !.bytecount = n,
                                        !.tdi_buffer = ChunkNextTdi(scan),
                                        !.tdo_buffer = ChunkNextTdo(scan)]
                /\ pc' = "scan" /\ ret' = ret
  /\ UNCHANGED <<calls, nreq, newcmd>>

DispatchTlrReset(req, o) ==
  /\ pc = "dispatch"
  /\ \E R \in {ulink_queue_tlr_reset(Enter(NextId(req)), o)} :
       AfterTranslator(R, NextId(req))

DispatchRuntest(req, o1, o2, o3) ==
  /\ pc = "dispatch"
  /\ LET S == ulink_set_end_state(Enter(NextId(req)), TAP_IDLE)
     IN IF tap_state # TAP_IDLE /\ S.exited
        THEN ProcessExit(S) /\ nreq' = nreq + 1
        ELSE \E R \in {ulink_queue_runtest(Enter(NextId(req)), req, o1, o2, o3)} :
               AfterTranslator(R, NextId(req))

DispatchReset(req, o) ==
  /\ pc = "dispatch"
  /\ \E R \in {ulink_queue_reset(Enter(NextId(req)), req, o)} :
       AfterTranslator(R, NextId(req))

DispatchPathmove(req) ==
  /\ pc = "dispatch"
  /\ \E R \in {ulink_queue_pathmove(Enter(NextId(req)))} :
       AfterTranslator(R, NextId(req))

DispatchSleep(req, o) ==
  /\ pc = "dispatch"
  /\ \E R \in {ulink_queue_sleep(Enter(NextId(req)), req, o)} :
       AfterTranslator(R, NextId(req))

\* "if (ulink_handle->commands_in_queue > 0) ..." at the end of the request list
FinalFlush(D, o) ==
  LET X == ulink_execute_queued_commands(D, o)
      P == ulink_post_process_queue(Strip(X))
  IN IF D.ciq > 0
     THEN IF X.ret # ERROR_OK THEN X
          ELSE Ok(ulink_clear_queue(Strip(P)))
     ELSE Ok(D)

\* the request list is exhausted: final flush and return
ExecuteQueueEnd(o) ==
  /\ pc = "dispatch"
  /\ LET R == FinalFlush(Dev, o)
     IN Commit(R) /\ ret' = R.ret
  /\ pc' = "idle"
  /\ UNCHANGED <<scan, nreq, calls, newcmd>>

----------------------------------------------------------------------------
(* ulink_init in three stages                                               *)

\* EZ-USB vendor request "Firmware Load" on endpoint 0
CPUCS_REG == 32658
CPU_RESET == 1
CPU_START == 0
ULINK_RENUMERATION_DELAY == 1500000
\* "Send section data in chunks of up to 64 bytes to ULINK"
FirmwareChunkMax == 64

\* strings are sequences of characters
OpenULINKName == <<"O", "p", "e", "n", "U", "L", "I", "N", "K">>

\* what usb_get_string_simple(handle, 1, str_manufacturer, 20) yields: ret < 0,
\* or the length and the characters of the string
NoDescriptor == [ret |-> -1, str |-> <<>>]

Descriptor(str) == [ret |-> Len(str), str |-> str]

\* "strncmp(str_manufacturer, "OpenULINK", 9) != 0": the first nine characters
\* differ, or the string ends before the ninth
ManufacturerDiffers(str) ==
  Len(str) < 9 \/ SubSeq(str, 1, 9) # OpenULINKName

\* faulty variant: the firmware is loaded only when no descriptor was read
DownloadFirmwareIfAbsent(desc) == desc.ret < 0

\* download_firmware after the descriptor has been read
DownloadFirmware(desc) ==
  IF desc.ret < 0 THEN TRUE ELSE ManufacturerDiffers(desc.str)

\* a firmware image: whether image_open succeeds, and per section its base
\* address, its size and whether image_read_section delivers it
Image(open_ok, sections) == [open_ok |-> open_ok, sections |-> sections]

Section(base_address, size, read_ok) ==
  [base_address |-> base_address, size |-> size, read_ok |-> read_ok]

\* the control transfers of an init so far
CtrlCount(t) == Len(SelectSeq(t, LAMBDA e : e.kind \in {"cpucs", "fwchunk"}))

\* usb_control_msg's return value for a transfer of len bytes: the transfer
\* number fail_at of this init comes back one byte short, every other complete
CtrlRet(t, len, fail_at) ==
  IF CtrlCount(t) + 1 = fail_at THEN len - 1 ELSE len

\* ulink_usb_open: jtag_usb_open and usb_claim_interface
ulink_usb_open(D, open_ok) ==
  LET D1 == [D EXCEPT !.trace =
               Append(@, Ev("usb_open", NoCmd, <<>>, 0, IF open_ok THEN 0 ELSE -1))]
  IN IF open_ok THEN Ok(D1) ELSE Fail(D1)

\* ulink_usb_close
ulink_usb_close(D, close_ok) ==
  LET D1 == [D EXCEPT !.trace =
               Append(@, Ev("usb_close", NoCmd, <<>>, 0, IF close_ok THEN 0 ELSE -1))]
  IN IF close_ok THEN Ok(D1) ELSE Fail(D1)

\* ulink_cpu_reset: one byte written to CPUCS; "cpucs" entry, data = the byte
ulink_cpu_reset(D, reset_bit, fail_at) ==
  LET r == CtrlRet(D.trace, 1, fail_at)
      D1 == [D EXCEPT !.trace = Append(@, Ev("cpucs", NoCmd, <<reset_bit>>, 1, r))]
  IN IF r # 1 THEN Fail(D1) ELSE Ok(D1)

\* "while (bytes_remaining > 0)" of ulink_write_firmware_section: one control
\* transfer per chunk; "fwchunk" entry, data = <<section, addr, offset of the
\* chunk in the section>>, count = chunk_size.  addr is a uint16_t.
RECURSIVE FirmwareChunks(_, _, _, _, _, _)
FirmwareChunks(D, section_index, addr, bytes_remaining, offset, fail_at) ==
  LET chunk_size == IF bytes_remaining > FirmwareChunkMax
                    THEN FirmwareChunkMax ELSE bytes_remaining
      r == CtrlRet(D.trace, chunk_size, fail_at)
      D1 == [D EXCEPT !.trace =
               Append(@, Ev("fwchunk", NoCmd, <<section_index, addr, offset>>,
                            chunk_size, r))]
  IN IF bytes_remaining = 0 THEN Ok(D)
     ELSE IF r # chunk_size THEN Fail(D1)
     ELSE FirmwareChunks(D1, section_index, (addr + chunk_size) % 65536,
                         bytes_remaining - chunk_size, offset + chunk_size, fail_at)

\* ulink_write_firmware_section: size and addr are uint16_t
ulink_write_firmware_section(D, image, section_index, fail_at) ==
  LET size == image.sections[section_index].size % 65536
      addr == image.sections[section_index].base_address % 65536
  IN IF ~image.sections[section_index].read_ok THEN Fail(D)
     ELSE FirmwareChunks(D, section_index, addr, size, 0, fail_at)

\* "Download all sections in the image to ULINK", from section i on
RECURSIVE FirmwareSections(_, _, _, _)
FirmwareSections(D, image, i, fail_at) ==
  IF i > Len(image.sections) THEN Ok(D)
  ELSE LET W == ulink_write_firmware_section(D, image, i, fail_at)
       IN IF W.ret # ERROR_OK THEN W
          ELSE FirmwareSections(Strip(W), image, i + 1, fail_at)

\* faulty variant: the CPU is restarted whatever the section writes returned
ulink_load_firmware_always_starts(D, image, fail_at) ==
  LET H == ulink_cpu_reset(D, CPU_RESET, fail_at)
      I == [Strip(H) EXCEPT !.trace =
              Append(@, [Ev("image_open", NoCmd,
                           [i \in DOMAIN image.sections |-> image.sections[i].size],
                           0, IF image.open_ok THEN 0 ELSE -1)
                        EXCEPT !.batch =
                          [i \in DOMAIN image.sections |->
                             image.sections[i].base_address]])]
      W == FirmwareSections(I, image, 1, fail_at)
  IN IF H.ret # ERROR_OK THEN H
     ELSE IF ~image.open_ok THEN Fail(I)
     ELSE ulink_cpu_reset(Strip(W), CPU_START, fail_at)

\* ulink_load_firmware; "image_open" entry, data = the sizes of the sections,
\* batch = their base addresses
ulink_load_firmware(D, image, fail_at) ==
  LET H == ulink_cpu_reset(D, CPU_RESET, fail_at)
      I == [Strip(H) EXCEPT !.trace =
              Append(@, [Ev("image_open", NoCmd,
                           [i \in DOMAIN image.sections |-> image.sections[i].size],
                           0, IF image.open_ok THEN 0 ELSE -1)
                        EXCEPT !.batch =
                          [i \in DOMAIN image.sections |->
                             image.sections[i].base_address]])]
      W == FirmwareSections(I, image, 1, fail_at)
  IN IF H.ret # ERROR_OK THEN H
     ELSE IF ~image.open_ok THEN Fail(I)
     ELSE IF W.ret # ERROR_OK THEN W
     ELSE ulink_cpu_reset(Strip(W), CPU_START, fail_at)

\* ulink_load_firmware_and_renumerate; "usleep" entry, count = the delay
ulink_load_firmware_and_renumerate(D, image, delay, fail_at, close_ok, reopen_ok) ==
  LET L == ulink_load_firmware(D, image, fail_at)
      C == ulink_usb_close(Strip(L), close_ok)
      U == [Strip(C) EXCEPT !.trace = Append(@, Ev("usleep", NoCmd, <<>>, delay, 0))]
  IN IF L.ret # ERROR_OK THEN L
     ELSE IF C.ret # ERROR_OK THEN C
     ELSE ulink_usb_open(U, reopen_ok)

\* ulink_init up to "Initialize OpenULINK command queue"; "descriptor" entry,
\* data = the string read, r = the return value of usb_get_string_simple
InitOpen(D, open_ok, desc, image, fail_at, close_ok, reopen_ok) ==
  LET O == ulink_usb_open(D, open_ok)
      G == [Strip(O) EXCEPT !.trace =
              Append(@, Ev("descriptor", NoCmd, desc.str, 0, desc.ret))]
      L == ulink_load_firmware_and_renumerate(G, image, ULINK_RENUMERATION_DELAY,
                                              fail_at, close_ok, reopen_ok)
  IN IF O.ret # ERROR_OK THEN O
     ELSE IF DownloadFirmware(desc)
     THEN IF L.ret # ERROR_OK THEN L ELSE Ok(ulink_clear_queue(Strip(L)))
     ELSE Ok(ulink_clear_queue(G))

UlinkInitUsb(open_ok, desc, image, fail_at, close_ok, reopen_ok) ==
  /\ pc = "start"
  /\ \E R \in {InitOpen(Dev, open_ok, desc, image, fail_at, close_ok, reopen_ok)} :
       /\ Commit(R)
       /\ IF R.ret = ERROR_OK
          THEN pc' = "init_test" /\ ret' = ret
          ELSE pc' = "dead" /\ ret' = R.ret
  /\ UNCHANGED <<scan, nreq, calls, newcmd>>

\* the image of the calls that do not vary it: one section of two chunks
PlainImage == Image(TRUE, <<Section(0, 65, TRUE)>>)

\* open the device, read the manufacturer string, load the firmware when the
\* string is not "OpenULINK", clear the queue
UlinkInitOpen(open_ok, desc_ok, fw_ok) ==
  UlinkInitUsb(open_ok, IF desc_ok THEN Descriptor(OpenULINKName) ELSE NoDescriptor,
               PlainImage, IF fw_ok THEN 0 ELSE 1, TRUE, TRUE)

\* faulty variant: a failed test exchange ends init at once
InitTestNoDrain(D, o, drain_ok) ==
  LET A == ulink_append_test_cmd(D, o)
      X == ulink_execute_queued_commands(Strip(A), o)
  IN IF A.ret # ERROR_OK THEN A
     ELSE IF X.ret = ERROR_OK THEN Ok(ulink_clear_queue(Strip(X)))
     ELSE X

\* the test command with the recovery read of one 64-byte IN packet
InitTest(D, o, drain_ok) ==
  LET A == ulink_append_test_cmd(D, o)
      X == ulink_execute_queued_commands(Strip(A), o)
      dret == IF drain_ok THEN PacketSize ELSE -1
      XD == [Strip(X) EXCEPT !.trace =
               Append(@, Ev("drain", NoCmd, <<>>, PacketSize, dret))]
  IN IF A.ret # ERROR_OK THEN A
     ELSE IF X.ret = ERROR_OK THEN Ok(ulink_clear_queue(Strip(X)))
     ELSE IF dret < 0 THEN Fail(XD)
     ELSE Ok(ulink_clear_queue(XD))

UlinkInitTest(o, drain_ok) ==
  /\ pc = "init_test"
  /\ LET R == InitTest(Dev, o, drain_ok)
     IN /\ Commit(R)
        /\ IF R.ret = ERROR_OK
           THEN pc' = "init_signals" /\ ret' = ret
           ELSE pc' = "dead" /\ ret' = R.ret
  /\ UNCHANGED <<scan, nreq, calls, newcmd>>

\* get-signals: append, exchange and read of payload_in[0..1], none checked
InitSignals(D, o) ==
  LET A == ulink_append_get_signals_cmd(D, o)
      X == ulink_execute_queued_commands(Strip(A), o)
      c == X.queue[1]
      S == [Strip(X) EXCEPT !.trace =
              Append(@, Ev("signals", c,
                           SubSeq(X.bufs[c.payload_in_start].data, 1, 2), 2,
                           IF X.ret = ERROR_OK THEN 0 ELSE -1))]
  IN Ok(ulink_clear_queue(S))

UlinkInitSignals(o) ==
  /\ pc = "init_signals"
  /\ Commit(InitSignals(Dev, o))
  /\ pc' = "idle"
  /\ ret' = ERROR_OK
  /\ UNCHANGED <<scan, nreq, calls, newcmd>>

----------------------------------------------------------------------------
(* TCK frequency: ulink_khz, ulink_speed, ulink_speed_div                   *)

\* faulty variant: the speed index is written before the frequency is checked
ulink_khz_writes_first(khz, jtag_speed) ==
  [ret |-> IF khz = 0 \/ khz > 150 THEN ERROR_FAIL ELSE ERROR_OK, jtag_speed |-> 0]

\* ulink_khz(khz, &jtag_speed): the return value and what the caller's
\* jtag_speed holds afterwards
ulink_khz(khz, jtag_speed) ==
  IF khz = 0 THEN [ret |-> ERROR_FAIL, jtag_speed |-> jtag_speed]
  ELSE IF khz > 150 THEN [ret |-> ERROR_FAIL, jtag_speed |-> jtag_speed]
  ELSE [ret |-> ERROR_OK, jtag_speed |-> 0]

ulink_speed(speed) == [ret |-> ERROR_OK]

\* variant that reports an index it has no frequency for
ulink_speed_div_strict(speed, khz) ==
  CASE speed = 0 -> [ret |-> ERROR_OK, khz |-> 150]
    [] speed = 1 -> [ret |-> ERROR_OK, khz |-> 100]
    [] OTHER -> [ret |-> ERROR_FAIL, khz |-> khz]

\* ulink_speed_div(speed, &khz): the return value and what the caller's khz
\* holds afterwards
ulink_speed_div(speed, khz) ==
  CASE speed = 0 -> [ret |-> ERROR_OK, khz |-> 150]
    [] speed = 1 -> [ret |-> ERROR_OK, khz |-> 100]
    [] OTHER -> [ret |-> ERROR_OK, khz |-> khz]

\* a call of one of the three functions between two calls of
\* ulink_execute_queue; the history entry holds <<argument, the caller's
\* variable before, the caller's variable after>> and the return value
SpeedCall(kind, data, result) ==
  /\ pc = "idle"
  /\ calls = 0
  /\ Len(trace) < MaxSpeedCalls
  /\ trace' = Append(trace, Ev(kind, NoCmd, data, 0,
                               IF result = ERROR_OK THEN 0 ELSE -1))
  /\ ret' = result
  /\ UNCHANGED <<pc, queue, commands_in_queue, tap_state, tap_end_state, bufs,
                 scan, nreq, calls, delivered, newcmd>>

Khz(khz, jtag_speed) ==
  \E R \in {ulink_khz(khz, jtag_speed)} :
    SpeedCall("khz", <<khz, jtag_speed, R.jtag_speed>>, R.ret)

Speed(speed) ==
  \E R \in {ulink_speed(speed)} : SpeedCall("speed", <<speed>>, R.ret)

SpeedDiv(speed, khz) ==
  \E R \in {ulink_speed_div(speed, khz)} :
    SpeedCall("speed_div", <<speed, khz, R.khz>>, R.ret)

\* one call of ulink_allocate_payload on the command being built; the
\* history entry holds the size, the direction (tap) and the return value
AllocatePayload(size, direction, calloc_ok) ==
  /\ pc = "idle"
  /\ calls = 0
  /\ Len(trace) < MaxAllocs
  /\ \E R \in {ulink_allocate_payload(newcmd, size, direction, calloc_ok)} :
       /\ newcmd' = [cmd |-> R.cmd, heap |-> R.heap]
       /\ ret' = R.ret
       /\ trace' = Append(trace, EvT("alloc", NoCmd, <<size>>, 0,
                                     IF R.ret = ERROR_OK THEN 0 ELSE -1, direction))
  /\ UNCHANGED <<pc, queue, commands_in_queue, tap_state, tap_end_state, bufs,
                 scan, nreq, calls, delivered>>

\* the payload sizes the command generation helpers ask for
PayloadSizes == {1, 2, 5, 63}

\* frequencies around 0 and 150 and at the ends of int
KhzValues == {-2147483647, -1, 0, 1, 150, 151, 2147483647}

\* speed indices around 0 and 1
SpeedValues == {-1, 0, 1, 2, 150}

\* what the caller's variable holds before the call
CallerValues == {0, 7}

----------------------------------------------------------------------------
(* The requests the JTAG core hands over                                    *)

ScanReq(scan_type, bits, ir_scan, end_state) ==
  Req(JTAG_SCAN, scan_type, bits, ir_scan, end_state, 0, FALSE, FALSE, 0)

RuntestReq(num_cycles, end_state) ==
  Req(JTAG_RUNTEST, "none", 0, FALSE, end_state, num_cycles, FALSE, FALSE, 0)

ResetReq(trst, srst) ==
  Req(JTAG_RESET, "none", 0, FALSE, TAP_RESET, 0, trst, srst, 0)

SleepReq(us) ==
  Req(JTAG_SLEEP, "none", 0, FALSE, TAP_RESET, 0, FALSE, FALSE, us)

TlrResetReq == Req(JTAG_TLR_RESET, "none", 0, FALSE, TAP_RESET, 0, FALSE, FALSE, 0)

PathmoveReq == Req(JTAG_PATHMOVE, "none", 0, FALSE, TAP_RESET, 0, FALSE, FALSE, 0)

\* end states the core asks for
EndStates == {TAP_RESET, TAP_IDLE, TAP_DRPAUSE, TAP_IRPAUSE}

DriverScans ==
  { ScanReq(SCAN_IO, 16, FALSE, TAP_IDLE),
    ScanReq(SCAN_OUT, 464, FALSE, TAP_DRPAUSE),
    ScanReq(SCAN_IN, 512, FALSE, TAP_IDLE),
    ScanReq(SCAN_IN, 460, TRUE, TAP_IDLE),
    ScanReq(SCAN_IO, 929, TRUE, TAP_IRPAUSE) }

DriverRuntests == { RuntestReq(100, TAP_IDLE), RuntestReq(65636, TAP_DRPAUSE) }

DriverResets == {ResetReq(TRUE, FALSE), ResetReq(FALSE, TRUE)}

DriverSleeps == { SleepReq(1000) }

\* the requests of the request specification: every combination of the reset
\* lines, sleeps around the byte and the 16-bit boundaries
AllResets == {ResetReq(t, r) : t \in BOOLEAN, r \in BOOLEAN}

SleepUs == {0, 1, 255, 256, 1000, 65535, 65536, 70000}

AllSleeps == {SleepReq(us) : us \in SleepUs}

\* the scans of the scan specification: every type and register, lengths
\* around the byte and the 58-byte chunk boundaries
ScanBits == {1, 8, 9, 460, 463, 464, 465, 472, 512, 924, 928, 929}

AllScans ==
  { ScanReq(t, n, ir, e) : t \in {SCAN_IN, SCAN_OUT, SCAN_IO}, n \in ScanBits,
                           ir \in BOOLEAN, e \in EndStates }

\* the strings an adapter answers the manufacturer request with
Manufacturers ==
  { OpenULINKName,
    OpenULINKName \o <<" ", "J", "T", "A", "G">>,
    <<"O", "p", "e", "n", "U", "L", "I", "N">>,
    <<"o", "p", "e", "n", "u", "l", "i", "n", "k">>,
    <<"K", "e", "i", "l">>,
    <<>> }

Descriptors == {NoDescriptor} \cup {Descriptor(str) : str \in Manufacturers}

\* firmware images: no section, sections of one chunk, of a full chunk, of
\* several chunks, two sections, an unreadable section, an unreadable file
Images ==
  { Image(TRUE, <<>>),
    Image(TRUE, <<Section(0, 1, TRUE)>>),
    Image(TRUE, <<Section(0, 64, TRUE)>>),
    Image(TRUE, <<Section(0, 65, TRUE), Section(4096, 3, TRUE)>>),
    Image(TRUE, <<Section(65472, 130, TRUE)>>),
    Image(TRUE, <<Section(0, 3, TRUE), Section(256, 70, FALSE)>>),
    Image(FALSE, <<Section(0, 1, TRUE)>>) }

\* the control transfer that comes back short (0: none)
MaxCtrl == 6

----------------------------------------------------------------------------
(* Specifications                                                           *)

\* the driver from ulink_init on
Init ==
  /\ pc = "start"
  /\ queue = <<>>
  /\ commands_in_queue = 0
  /\ tap_state = TAP_RESET
  /\ tap_end_state = TAP_RESET
  /\ bufs = <<>>
  /\ scan = NoScan
  /\ nreq = 0
  /\ calls = 0
  /\ ret = "running"
  /\ trace = <<>>
  /\ delivered = <<>>
  /\ newcmd = NoNewCmd

Next ==
  \/ \E open_ok, desc_ok, fw_ok \in BOOLEAN : UlinkInitOpen(open_ok, desc_ok, fw_ok)
  \/ \E o \in UsbOutcomes, drain_ok \in BOOLEAN : UlinkInitTest(o, drain_ok)
  \/ \E o \in UsbOutcomes : UlinkInitSignals(o)
  \/ calls < MaxCalls /\ ExecuteQueueBegin
  \/ \E req \in DriverScans : nreq < MaxRequests /\ DispatchScan(req)
  \/ \E o \in UsbOutcomes : ScanChunk(o)
  \/ \E o \in UsbOutcomes : nreq < MaxRequests /\ DispatchTlrReset(TlrResetReq, o)
  \/ \E req \in DriverRuntests, o1, o2, o3 \in RuntestOutcomes :
       nreq < MaxRequests /\ DispatchRuntest(req, o1, o2, o3)
  \/ \E req \in DriverResets, o \in UsbOutcomes :
       nreq < MaxRequests /\ DispatchReset(req, o)
  \/ nreq < MaxRequests /\ DispatchPathmove(PathmoveReq)
  \/ \E req \in DriverSleeps, o \in UsbOutcomes :
       nreq < MaxRequests /\ DispatchSleep(req, o)
  \/ \E o \in UsbOutcomes : ExecuteQueueEnd(o)

Spec == Init /\ [][Next]_vars

\* ulink_init alone, with every descriptor, image and transfer outcome
NextInit ==
  \/ \E open_ok, close_ok, reopen_ok \in BOOLEAN, desc \in Descriptors,
         image \in Images, fail_at \in 0..MaxCtrl :
       UlinkInitUsb(open_ok, desc, image, fail_at, close_ok, reopen_ok)
  \/ \E o \in UsbOutcomes, drain_ok \in BOOLEAN : UlinkInitTest(o, drain_ok)
  \/ \E o \in UsbOutcomes : UlinkInitSignals(o)

SpecInit == Init /\ [][NextInit]_vars

\* the speed functions on an initialised driver
InitSpeed ==
  /\ pc = "idle"
  /\ queue = <<>>
  /\ commands_in_queue = 0
  /\ tap_state = TAP_RESET
  /\ tap_end_state = TAP_RESET
  /\ bufs = <<>>
  /\ scan = NoScan
  /\ nreq = 0
  /\ calls = 0
  /\ ret = ERROR_OK
  /\ trace = <<>>
  /\ delivered = <<>>
  /\ newcmd = NoNewCmd

NextSpeed ==
  \/ \E khz \in KhzValues, jtag_speed \in CallerValues : Khz(khz, jtag_speed)
  \/ \E speed \in SpeedValues : Speed(speed)
  \/ \E speed \in SpeedValues, khz \in CallerValues : SpeedDiv(speed, khz)

SpecSpeed == InitSpeed /\ [][NextSpeed]_vars

\* ulink_allocate_payload called up to MaxAllocs times on one command
NextAlloc ==
  \E size \in PayloadSizes, calloc_ok \in BOOLEAN,
     direction \in {PAYLOAD_DIRECTION_OUT, PAYLOAD_DIRECTION_IN} :
    AllocatePayload(size, direction, calloc_ok)

SpecAlloc == InitSpeed /\ [][NextAlloc]_vars

\* one call of ulink_execute_queue with one scan, from an initialised driver
\* whose follower is in any of the states a request can leave it in
InitScan ==
  /\ pc = "idle"
  /\ queue = <<>>
  /\ commands_in_queue = 0
  /\ tap_state \in EndStates
  /\ tap_end_state = tap_state
  /\ bufs = <<>>
  /\ scan = NoScan
  /\ nreq = 0
  /\ calls = 0
  /\ ret = ERROR_OK
  /\ trace = <<>>
  /\ delivered = <<>>
  /\ newcmd = NoNewCmd

NextScan ==
  \/ calls = 0 /\ ExecuteQueueBegin
  \/ \E req \in AllScans : nreq = 0 /\ DispatchScan(req)
  \/ \E o \in UsbOutcomes : ScanChunk(o)
  \/ \E o \in UsbOutcomes : ExecuteQueueEnd(o)

SpecScan == InitScan /\ [][NextScan]_vars

\* a direct call of ulink_append_scan_cmd for a stand-alone scan of bits bits
\* that starts in the follower's state and ends in IDLE; the caller has
\* built the TDI buffer and allocated the result array.  The "append_scan"
\* entry of the history holds bits, the return value and the follower's
\* state at the call.
AppendScanCmd(scan_type, bits, o) ==
  /\ pc = "idle"
  /\ calls = 0
  /\ nreq < MaxAppends
  /\ LET origin == NextId(ScanReq(scan_type, bits, FALSE, TAP_IDLE))
         bytes == DIV_ROUND_UP(bits, 8)
         has_tdo == scan_type \in {SCAN_IN, SCAN_IO}
         nbufs == IF has_tdo THEN Append(bufs, NewBuf(bytes, origin.id)) ELSE bufs
         first_tms == TmsPath(tap_state, TAP_DRSHIFT)
         last_tms == TmsPath(TAP_DRSHIFT, TAP_IDLE)
     IN \E R \in {ulink_append_scan_cmd([Dev EXCEPT !.bufs = nbufs], scan_type, bits,
                      IF scan_type = SCAN_IN THEN <<>> ELSE TdiBuffer(bytes),
                      IF has_tdo THEN Len(nbufs) ELSE NULL, 0,
                      first_tms[1], first_tms[2], last_tms[1], last_tms[2],
                      origin, TRUE, o)} :
          /\ Commit([R EXCEPT !.trace =
                       Append(@, EvT("append_scan", OriginOnly(origin), <<bits>>, 0,
                                     IF R.ret = ERROR_OK THEN 0 ELSE -1, tap_state))])
          /\ ret' = R.ret
          /\ nreq' = origin.id
  /\ UNCHANGED <<pc, scan, calls, newcmd>>

\* scan sizes around the 464 bits one command can carry
AppendBits == {8, 464, 465, 472, 929}

NextAppend ==
  \E scan_type \in {SCAN_IN, SCAN_OUT, SCAN_IO}, bits \in AppendBits, o \in UsbOutcomes :
    AppendScanCmd(scan_type, bits, o)

SpecAppend == InitScan /\ [][NextAppend]_vars

\* one call of ulink_execute_queue with two requests other than runtest, from
\* an initialised driver whose follower is in any of the states a request can
\* leave it in
NextReq ==
  \/ calls = 0 /\ ExecuteQueueBegin
  \/ \E req \in DriverScans : nreq <= 1 /\ DispatchScan(req)
  \/ \E o \in UsbOutcomes : ScanChunk(o)
  \/ \E o \in UsbOutcomes : nreq <= 1 /\ DispatchTlrReset(TlrResetReq, o)
  \/ \E req \in AllResets, o \in UsbOutcomes : nreq <= 1 /\ DispatchReset(req, o)
  \/ nreq <= 1 /\ DispatchPathmove(PathmoveReq)
  \/ \E req \in AllSleeps, o \in UsbOutcomes : nreq <= 1 /\ DispatchSleep(req, o)
  \/ \E o \in UsbOutcomes : ExecuteQueueEnd(o)

SpecReq == InitScan /\ [][NextReq]_vars

\* one call of ulink_execute_queue with a request list of at most MaxListLen
\* requests of every type.  The driver runs on the caller's thread and every
\* USB transfer returns, with a result or by its timeout, so a step that can
\* be taken is taken.
NextTerm ==
  \/ calls = 0 /\ ExecuteQueueBegin
  \/ \E req \in DriverScans : nreq < MaxListLen /\ DispatchScan(req)
  \/ \E o \in UsbOutcomes : ScanChunk(o)
  \/ \E o \in UsbOutcomes : nreq < MaxListLen /\ DispatchTlrReset(TlrResetReq, o)
  \/ \E req \in DriverRuntests, o1, o2, o3 \in RuntestOutcomes :
       nreq < MaxListLen /\ DispatchRuntest(req, o1, o2, o3)
  \/ \E req \in DriverResets, o \in UsbOutcomes :
       nreq < MaxListLen /\ DispatchReset(req, o)
  \/ nreq < MaxListLen /\ DispatchPathmove(PathmoveReq)
  \/ \E req \in DriverSleeps, o \in UsbOutcomes :
       nreq < MaxListLen /\ DispatchSleep(req, o)
  \/ \E o \in UsbOutcomes : ExecuteQueueEnd(o)

\* a step of NextTerm can be taken: ExecuteQueueBegin before the call,
\* ScanChunk inside the scan loop, ExecuteQueueEnd between two requests
Runnable == pc \in {"dispatch", "scan"} \/ (pc = "idle" /\ calls = 0)

\* weak fairness of NextTerm, written with Runnable for ENABLED <<NextTerm>>_vars
\* (every step that changes vars is a step of NextTerm)
SpecTerm ==
  InitScan /\ [][NextTerm]_vars /\ ([]<>(~Runnable) \/ []<><<TRUE>>_vars)

\* ulink_set_end_state called with any TAP state, then one call of
\* ulink_execute_queue with one scan
SetEndState(endstate) ==
  /\ pc = "idle"
  /\ calls = 0
  /\ Len(trace) < MaxSetCalls
  /\ LET S == ulink_set_end_state(Dev, endstate)
     IN /\ Commit(Returned(S))
        /\ pc' = IF S.exited THEN "dead" ELSE "idle"
  /\ UNCHANGED <<scan, nreq, calls, ret, newcmd>>

NextEndState ==
  \/ \E endstate \in TapStates : SetEndState(endstate)
  \/ calls = 0 /\ ExecuteQueueBegin
  \/ \E req \in DriverScans : nreq = 0 /\ DispatchScan(req)
  \/ \E o \in UsbOutcomes : ScanChunk(o)
  \/ \E o \in UsbOutcomes : ExecuteQueueEnd(o)

SpecEndState == InitScan /\ [][NextEndState]_vars

\* "ulink_set_end_state(endstate); ulink_queue_statemove(device);", the pair
\* of calls the runtest translator makes, from every state the follower can
\* be in and to every state.  The history gets a "statemove" entry (tap = the
\* follower's state before) and a "moved" entry (r = the result of
\* ulink_queue_statemove, tap = the follower's state after).
QueueStatemove(endstate, o) ==
  /\ pc = "idle"
  /\ calls = 0
  /\ Len(OfKindIn(trace, "statemove")) < MaxMoves
  /\ LET S == ulink_set_end_state(
                [Dev EXCEPT !.trace = Append(@, EvT("statemove", NoCmd, <<>>, 0, 0, tap_state))],
                endstate)
     IN IF S.exited
        THEN ProcessExit(S) /\ UNCHANGED nreq
        ELSE \E R \in {ulink_queue_statemove(Returned(S), o)} :
               /\ Commit([R EXCEPT !.trace =
                            Append(@, EvT("moved", NoCmd, <<>>, 0,
                                          IF R.ret = ERROR_OK THEN 0 ELSE -1, R.tap))])
               /\ ret' = R.ret
               /\ UNCHANGED <<pc, scan, nreq, calls, newcmd>>

\* the follower in any of the states the TMS path table covers
InitMove ==
  /\ pc = "idle"
  /\ queue = <<>>
  /\ commands_in_queue = 0
  /\ tap_state \in {MoveStates[i] : i \in 1..6}
  /\ tap_end_state = tap_state
  /\ bufs = <<>>
  /\ scan = NoScan
  /\ nreq = 0
  /\ calls = 0
  /\ ret = ERROR_OK
  /\ trace = <<>>
  /\ delivered = <<>>
  /\ newcmd = NoNewCmd

\* the scans that follow the state moves: unsplit and split, both registers
MoveScans ==
  { ScanReq(t, n, ir, e) : t \in {SCAN_OUT}, n \in {8, 929}, ir \in BOOLEAN,
                           e \in EndStates }

\* state moves from any state of the path table, then one call of
\* ulink_execute_queue with one scan
NextMove ==
  \/ \E endstate \in TapStates, o \in UsbOutcomes : QueueStatemove(endstate, o)
  \/ calls = 0 /\ ExecuteQueueBegin
  \/ \E req \in MoveScans : nreq = 0 /\ DispatchScan(req)
  \/ \E o \in UsbOutcomes : ScanChunk(o)
  \/ \E o \in UsbOutcomes : ExecuteQueueEnd(o)

SpecMove == InitMove /\ [][NextMove]_vars

----------------------------------------------------------------------------
(* Reading the history                                                      *)

RECURSIVE Flatten(_)
Flatten(ss) == IF ss = <<>> THEN <<>> ELSE Head(ss) \o Flatten(Tail(ss))

OfKind(kind) == SelectSeq(trace, LAMBDA e : e.kind = kind)

\* the bytes of all bulk OUT packets of the call, in order
SentBytes == Flatten([k \in 1..Len(OfKind("out")) |-> OfKind("out")[k].data])

\* [id, payload_out...] of the commands the translators emitted, in order
EmittedBytes ==
  Flatten([k \in 1..Len(OfKind("emit")) |->
             <<OfKind("emit")[k].cmd.id>> \o OfKind("emit")[k].cmd.payload_out])

\* a bulk transfer that failed or was short
TransferFailed(e) == e.kind \in {"out", "in"} /\ (e.r < 0 \/ e.r # e.count)

RECURSIVE SumOutBudget(_)
SumOutBudget(q) ==
  IF q = <<>> THEN 0 ELSE (Len(Head(q).payload_out) + 1) + SumOutBudget(Tail(q))

RECURSIVE SumInBudget(_)
SumInBudget(q) ==
  IF q = <<>> THEN 0 ELSE Head(q).payload_in_size + SumInBudget(Tail(q))

\* the commands a scan request has emitted so far, in order
ScanEmits(id) ==
  SelectSeq(trace, LAMBDA e : e.kind = "emit" /\ e.cmd.cmd_origin.id = id)

\* the number of bits a scan command's header declares
DeclaredBits(c) == (c.payload_out[1] - 1) * 8 + c.payload_out[2]

RECURSIVE SumDeclaredBits(_)
SumDeclaredBits(es) ==
  IF es = <<>> THEN 0 ELSE DeclaredBits(Head(es).cmd) + SumDeclaredBits(Tail(es))

\* a scan translator has returned ERROR_OK at position k of the history
ScanDoneOk(k) ==
  /\ trace[k].kind = "done"
  /\ trace[k].r = 0
  /\ trace[k].cmd.cmd_origin.type = JTAG_SCAN

\* the request with this id entered its translator at position k
ReqAt(k, id) == trace[k].kind = "req" /\ trace[k].cmd.cmd_origin.id = id

\* the follower's state when request id entered its translator
EntryTap(id) == trace[CHOOSE k \in DOMAIN trace : ReqAt(k, id)].tap

\* the result bytes of a scan of this many bits
ResultBytes(bits) == (bits + 7) \div 8

\* the state the TAP reaches from s after count TCK cycles, TMS taken from
\* the bits of sequence, least significant first
RECURSIVE Walk(_, _, _)
Walk(s, sequence, count) ==
  IF count = 0 THEN s
  ELSE Walk(tap_state_transition(s, sequence % 2), sequence \div 2, count - 1)

\* what the adapter makes of a bulk OUT packet: the number of bytes each of
\* its commands answers with (the command table of the wire language)
RECURSIVE WireAnswerLens(_)
WireAnswerLens(p) ==
  IF p = <<>> THEN <<>>
  ELSE LET id == p[1]
           bytes == IF id \in CMD_SCAN_IN..CMD_SLOW_SCAN_IO THEN p[2] ELSE 0
           outlen == CASE id \in {CMD_SCAN_IN, CMD_SLOW_SCAN_IN} -> 5
                       [] id \in CMD_SCAN_OUT..CMD_SLOW_SCAN_IO -> 5 + bytes
                       [] id = CMD_GET_SIGNALS -> 0
                       [] id = CMD_CONFIGURE_TCK_FREQ -> 3
                       [] id \in {CMD_SET_LEDS, CMD_TEST} -> 1
                       [] OTHER -> 2
           inlen == CASE id \in {CMD_SCAN_IN, CMD_SLOW_SCAN_IN,
                                  CMD_SCAN_IO, CMD_SLOW_SCAN_IO} -> bytes
                      [] id = CMD_GET_SIGNALS -> 2
                      [] OTHER -> 0
       IN <<inlen>> \o WireAnswerLens(SubSeq(p, 2 + outlen, Len(p)))

\* the bytes of an answer packet that answer the commands of request id
RECURSIVE AnswersInPacket(_, _, _, _)
AnswersInPacket(lens, batch, packet, id) ==
  IF lens = <<>> THEN <<>>
  ELSE (IF Head(batch) = id THEN SubSeq(packet, 1, Head(lens)) ELSE <<>>)
       \o AnswersInPacket(Tail(lens), Tail(batch),
                          SubSeq(packet, Head(lens) + 1, Len(packet)), id)

\* a completed exchange: bulk OUT at position k, its bulk IN at k + 1
ExchangeAt(k) ==
  /\ k + 1 <= Len(trace)
  /\ trace[k].kind = "out" /\ ~TransferFailed(trace[k])
  /\ trace[k + 1].kind = "in" /\ ~TransferFailed(trace[k + 1])

\* every byte the adapter has answered to the commands of request id in the
\* exchanges at positions k .. n of the history, in order
RECURSIVE AdapterAnswers(_, _, _)
AdapterAnswers(id, k, n) ==
  IF k > n THEN <<>>
  ELSE (IF ExchangeAt(k)
        THEN AnswersInPacket(WireAnswerLens(trace[k].data), trace[k].batch,
                             trace[k + 1].data, id)
        ELSE <<>>)
       \o AdapterAnswers(id, k + 1, n)

\* a scan result is handed to jtag_read_buffer at position m, for a scan
\* request of the current call
ResultHandedAt(m) ==
  /\ trace[m].kind = "pp"
  /\ \E k \in 1..m : ReqAt(k, trace[m].cmd.cmd_origin.id)

----------------------------------------------------------------------------
(* Claims                                                                   *)

\* C1: in every reachable state the pending batch is within both budgets: the
\* sum of (payload_out size + 1) is at most 64 and the sum of payload_in sizes
\* is at most 64.
C1_BatchWithinBudgets ==
  /\ SumOutBudget(queue) <= 64
  /\ SumInBudget(queue) <= 64

\* C1 witness: an append has flushed the batch to make room and the batch now
\* fills the OUT budget to the last byte.
C1_Witness ==
  /\ pc = "dispatch"
  /\ SumOutBudget(queue) = 64
  /\ \E k \in DOMAIN trace : trace[k].kind = "out"

\* C2: when ulink_execute_queue has returned an error, the pending batch is
\* empty.
C2_BatchEmptyAfterError ==
  (pc = "idle" /\ calls > 0 /\ ret = ERROR_FAIL) => queue = <<>>

\* C3: when a scan translator has returned ERROR_OK for a scan of N bits, the
\* bit counts its chunk headers declare add up to N; every non-final chunk
\* declares 58 bytes with 8 bits in the last, the final chunk declares
\* ((N-1) mod 8) + 1 bits in its last byte.
C3_HeadersDeclareN ==
  \A k \in DOMAIN trace :
    ScanDoneOk(k) =>
      LET o == trace[k].cmd.cmd_origin
          es == ScanEmits(o.id)
      IN /\ SumDeclaredBits(es) = o.bits
         /\ \A i \in 1..(Len(es) - 1) :
              es[i].cmd.payload_out[1] = 58 /\ es[i].cmd.payload_out[2] = 8
         /\ es[Len(es)].cmd.payload_out[2] = ((o.bits - 1) % 8) + 1

\* C4: when a call of ulink_execute_queue has returned ERROR_OK, the bytes of
\* its bulk OUT packets, concatenated, are the serialization [id, payload_out...]
\* of the commands its translators emitted, in emission order.
C4_WireIsEmission ==
  (pc = "idle" /\ calls > 0 /\ ret = ERROR_OK) => SentBytes = EmittedBytes

\* C5: once a bulk transfer of a call has failed or was short, the call emits
\* no further command and starts no further transfer, and it returns an error.
C5_FailFast ==
  calls > 0 =>
    \A i \in DOMAIN trace :
      TransferFailed(trace[i]) =>
        /\ \A j \in (i + 1)..Len(trace) :
             trace[j].kind \notin {"emit", "out", "in"}
        /\ (pc = "idle" => ret = ERROR_FAIL)

C7_TmsContinuity ==
  \A k \in DOMAIN trace :
    (trace[k].kind = "emit" /\ trace[k].cmd.cmd_origin.type = JTAG_SCAN) =>
      LET o == trace[k].cmd.cmd_origin
          h == trace[k].cmd.payload_out
          idx == Len(SelectSeq(SubSeq(trace, 1, k),
                     LAMBDA e : e.kind = "emit" /\ e.cmd.cmd_origin.id = o.id))
          total == (ResultBytes(o.bits) + 57) \div 58
          shift == IF o.ir_scan THEN "IRSHIFT" ELSE "DRSHIFT"
          pause == IF o.ir_scan THEN "IRPAUSE" ELSE "DRPAUSE"
      IN /\ Walk(IF idx = 1 THEN EntryTap(o.id) ELSE pause, h[4], h[3] \div 16)
              = shift
         /\ Walk(shift, h[5], h[3] % 16)
              = IF idx = total THEN o.end_state ELSE pause

\* C7 witness: a split IR scan entered in DRPAUSE has emitted its third and
\* last command, towards IDLE.
C7_Witness ==
  \E k \in DOMAIN trace :
    /\ ScanDoneOk(k)
    /\ trace[k].cmd.cmd_origin.ir_scan
    /\ trace[k].cmd.cmd_origin.end_state = TAP_IDLE
    /\ EntryTap(trace[k].cmd.cmd_origin.id) = TAP_DRPAUSE
    /\ Len(ScanEmits(trace[k].cmd.cmd_origin.id)) = 3

\* C8: when the scan translator has returned ERROR_OK, the TAP follower's
\* current state is the end state the scan request asked for.
C8_FollowerAtEndState ==
  \A k \in DOMAIN trace :
    ScanDoneOk(k) =>
      /\ trace[k].tap = trace[k].cmd.cmd_origin.end_state
      /\ (k = Len(trace) => tap_state = trace[k].cmd.cmd_origin.end_state)

\* C8 witness: a split DR scan entered in RESET has just returned ERROR_OK
\* with IRPAUSE as its end state.
C8_Witness ==
  \E k \in DOMAIN trace :
    /\ ScanDoneOk(k)
    /\ k = Len(trace)
    /\ ~trace[k].cmd.cmd_origin.ir_scan
    /\ trace[k].cmd.cmd_origin.bits = 928
    /\ trace[k].cmd.cmd_origin.end_state = TAP_IRPAUSE
    /\ EntryTap(trace[k].cmd.cmd_origin.id) = TAP_RESET
    /\ tap_state = TAP_IRPAUSE

C10_PostProcessedOnce ==
  /\ \A m \in DOMAIN trace :
       trace[m].kind = "pp" =>
         LET c == trace[m].cmd
             B == ResultBytes(c.cmd_origin.bits)
         IN /\ c.payload_in + c.payload_in_size = B
            /\ trace[m].count = B
            /\ \E k \in 1..(m - 1) :
                 /\ ExchangeAt(k)
                 /\ \E i \in DOMAIN trace[k].batch :
                      trace[k].batch[i] = c.cmd_origin.id
                 /\ \A j \in (k + 2)..(m - 1) : trace[j].kind \in {"xret", "pp"}
  /\ \A i, j \in DOMAIN delivered : i # j => delivered[i] # delivered[j]
  /\ (pc = "idle" /\ calls > 0 /\ ret = ERROR_OK) =>
       \A k \in DOMAIN trace :
         (trace[k].kind = "req"
            /\ trace[k].cmd.cmd_origin.scan_type \in {SCAN_IN, SCAN_IO}) =>
           Cardinality({m \in DOMAIN trace :
                          /\ trace[m].kind = "pp"
                          /\ trace[m].cmd.cmd_origin.id
                               = trace[k].cmd.cmd_origin.id}) = 1

\* C10 witness: a call given a 929-bit IO scan and a 512-bit IN scan has
\* returned ERROR_OK, both results handed over.
C10_Witness ==
  /\ pc = "idle" /\ ret = ERROR_OK
  /\ Len(OfKind("pp")) = 2
  /\ \E m \in DOMAIN trace :
       ResultHandedAt(m) /\ trace[m].cmd.cmd_origin.bits = 929

----------------------------------------------------------------------------
(* Ownership of the scan result array                                       *)

\* the result arrays allocated by ulink_queue_scan
ScanBufs == {b \in DOMAIN bufs : bufs[b].owner # NULL}

\* c is the chunk that ends the scan array b was allocated for: its slice
\* reaches the last byte of the array
IsFinalChunkOf(c, b) ==
  /\ c.payload_in_start = b
  /\ c.cmd_origin.id = bufs[b].owner
  /\ c.payload_in + c.payload_in_size = DIV_ROUND_UP(c.cmd_origin.bits, 8)

\* no result array is freed twice; the command whose removal freed it is the
\* scan's final chunk; no queued command points into a released array and
\* nothing was written to it or handed over from it after the release
NoDoubleFreeNoUseAfterFree ==
  /\ \A b \in ScanBufs :
       /\ bufs[b].frees <= 1
       /\ bufs[b].frees = 1 =>
            /\ IsFinalChunkOf(bufs[b].freed_by, b)
            /\ bufs[b].written = {}
       /\ \A k \in DOMAIN queue :
            queue[k].payload_in_start = b => bufs[b].frees = 0
  /\ \A k \in DOMAIN trace :
       trace[k].kind = "pp" =>
         Len(trace[k].data) = DIV_ROUND_UP(trace[k].cmd.cmd_origin.bits, 8)

\* C11: the result array of a scan is released exactly once, by the queue
\* clear that removes the scan's final chunk: it is never freed twice, the
\* command whose removal freed it is the final chunk (so a clear of
\* intermediate chunks frees nothing), no wire command writes to or reads
\* from it after the release, and once the driver is idle with an empty
\* queue every result array has been released.
C11_ResultBufferReleasedOnce ==
  /\ NoDoubleFreeNoUseAfterFree
  /\ (pc = "idle" /\ queue = <<>>) => \A b \in ScanBufs : bufs[b].frees = 1

----------------------------------------------------------------------------
(* The transport step                                                       *)

\* sum of (1 + payload_out_size) and of payload_in_size over the commands of
\* a flushed queue
RECURSIVE SumOutSizes(_)
SumOutSizes(cs) ==
  IF cs = <<>> THEN 0 ELSE (1 + Head(cs).payload_out_size) + SumOutSizes(Tail(cs))

RECURSIVE SumInSizes(_)
SumInSizes(cs) ==
  IF cs = <<>> THEN 0 ELSE Head(cs).payload_in_size + SumInSizes(Tail(cs))

\* position k of the history starts a flush: the bulk OUT of a batch
FlushAt(k) == k \in DOMAIN trace /\ trace[k].kind = "out"

\* the position where the flush that starts at k returns
FlushReturn(k) == IF trace[k + 1].kind = "in" THEN k + 2 ELSE k + 1

\* C12: every flush sends a non-empty batch with one bulk OUT of
\* count_out = sum of (1 + payload_out_size) bytes; a bulk IN follows exactly
\* when the bulk OUT transferred all count_out bytes and count_in > 0, it is
\* the only one and expects count_in = sum of payload_in_size bytes; no bulk
\* IN occurs anywhere else; and the flush returns ERROR_OK only if the bulk
\* OUT was complete and the bulk IN, when there is one, returned exactly
\* count_in bytes.
C12_OneOutThenOneIn ==
  \A k \in DOMAIN trace :
    /\ FlushAt(k) =>
         LET e == trace[k]
             count_in == SumInSizes(e.cmds)
             sent == e.r = e.count
         IN /\ e.cmds # <<>>
            /\ e.count = SumOutSizes(e.cmds)
            /\ Len(e.data) = e.count
            /\ k + 1 \in DOMAIN trace
            /\ (trace[k + 1].kind = "in") <=> (sent /\ count_in > 0)
            /\ trace[k + 1].kind = "in" => trace[k + 1].count = count_in
            /\ FlushReturn(k) \in DOMAIN trace
            /\ trace[FlushReturn(k)].kind = "xret"
            /\ trace[FlushReturn(k)].r = 0 =>
                 /\ sent
                 /\ count_in > 0 => trace[k + 1].r = count_in
    /\ trace[k].kind = "in" => FlushAt(k - 1)
    /\ trace[k].kind = "xret" =>
         \/ FlushAt(k - 1)
         \/ (k > 1 /\ trace[k - 1].kind = "in")

\* C12 witness: a call has flushed a batch of several commands with IN bytes
\* successfully, and a later flush of the same call was answered with more
\* bytes than expected and failed.
C12_Witness ==
  \E k, m \in DOMAIN trace :
    /\ FlushAt(k) /\ Len(trace[k].cmds) > 1
    /\ trace[k + 1].kind = "in" /\ trace[k + 1].r = trace[k + 1].count
    /\ trace[k + 2].kind = "xret" /\ trace[k + 2].r = 0
    /\ m > k + 2
    /\ trace[m].kind = "in" /\ trace[m].r > trace[m].count
    /\ trace[m + 1].kind = "xret" /\ trace[m + 1].r = -1

\* the flush that starts at k had a bulk transfer that failed or moved another
\* number of bytes than expected
FlushTransferFailed(k) ==
  \/ TransferFailed(trace[k])
  \/ (trace[k + 1].kind = "in" /\ TransferFailed(trace[k + 1]))

----------------------------------------------------------------------------
(* Request translators other than scan                                      *)

\* the translator of a request of this type has returned at position k
DoneAt(k, type) ==
  /\ trace[k].kind = "done"
  /\ trace[k].cmd.cmd_origin.type = type

\* the position where the request whose translator returns at k entered it
ReqPos(k) == CHOOSE i \in 1..k : ReqAt(i, trace[k].cmd.cmd_origin.id)

\* the wire commands the request whose translator returns at k has emitted
EmitsOf(k) ==
  SelectSeq(SubSeq(trace, ReqPos(k), k), LAMBDA e : e.kind = "emit")

\* C14: a TLR reset request, whatever state the follower is in, emits exactly
\* one wire command, clock-tms with count 5 and sequence 0xFF, and when the
\* emission succeeds the follower is in RESET.
C14_TlrReset ==
  \A k \in DOMAIN trace :
    DoneAt(k, JTAG_TLR_RESET) =>
      /\ Len(EmitsOf(k)) = 1
      /\ EmitsOf(k)[1].cmd.id = CMD_CLOCK_TMS
      /\ EmitsOf(k)[1].cmd.payload_out = <<5, 255>>
      /\ trace[k].r = 0 => trace[k].tap = TAP_RESET
      /\ (trace[k].r = 0 /\ k = Len(trace)) => tap_state = TAP_RESET

\* C14 witness: a TLR reset entered with the follower in DRPAUSE has returned
\* ERROR_OK.
C14_Witness ==
  \E k \in DOMAIN trace :
    /\ DoneAt(k, JTAG_TLR_RESET)
    /\ trace[k].r = 0
    /\ trace[ReqPos(k)].tap = TAP_DRPAUSE

\* the clock-tms command that moves the follower from state from to state to
ClockTmsFor(from, to) ==
  [id |-> CMD_CLOCK_TMS,
   payload_out |-> <<tap_get_tms_path_len(from, to), tap_get_tms_path(from, to)>>]

\* clock-tck with a 16-bit count, low byte first
ClockTckFor(count) ==
  [id |-> CMD_CLOCK_TCK,
   payload_out |-> <<(count % 65536) % 256, (count % 65536) \div 256>>]

\* what the claim lets a runtest request emit when the follower is in state
\* entry: clock-tms to IDLE iff not in IDLE, clock-tck, clock-tms to the end
\* state iff it is not IDLE
RuntestExpected(entry, req) ==
  (IF entry # TAP_IDLE THEN <<ClockTmsFor(entry, TAP_IDLE)>> ELSE <<>>)
  \o <<ClockTckFor(req.num_cycles)>>
  \o (IF req.end_state # TAP_IDLE
      THEN <<ClockTmsFor(TAP_IDLE, req.end_state)>> ELSE <<>>)

\* id and OUT payload of the commands the request returning at k has emitted
EmittedOf(k) ==
  [i \in 1..Len(EmitsOf(k)) |->
     [id |-> EmitsOf(k)[i].cmd.id, payload_out |-> EmitsOf(k)[i].cmd.payload_out]]

\* the runtest that returns at k emitted what the claim says and left the
\* follower in the requested end state
RuntestAsClaimed(k) ==
  /\ EmittedOf(k) = RuntestExpected(trace[ReqPos(k)].tap, trace[k].cmd.cmd_origin)
  /\ trace[k].tap = trace[k].cmd.cmd_origin.end_state

\* C15: a runtest request that returns ERROR_OK has emitted, in this order,
\* a clock-tms to IDLE iff the follower was not in IDLE, exactly one
\* clock-tck, and a clock-tms to the requested end state iff that state is
\* not IDLE; and the follower is in the requested end state.
C15_RuntestOrder ==
  \A k \in DOMAIN trace :
    (DoneAt(k, JTAG_RUNTEST) /\ trace[k].r = 0) => RuntestAsClaimed(k)

\* C15 holds of the runtests during which no bulk transfer failed
C15_RuntestOrderNoFailure ==
  \A k \in DOMAIN trace :
    (/\ DoneAt(k, JTAG_RUNTEST) /\ trace[k].r = 0
     /\ \A j \in ReqPos(k)..k : ~TransferFailed(trace[j])) => RuntestAsClaimed(k)

\* bit b (a power of two) is set in the byte x
BitSet(x, b) == (x \div b) % 2 = 1

ByteBits == {1, 2, 4, 8, 16, 32, 64, 128}

\* C16: a line-reset request emits exactly one set-signals command; its high
\* mask holds the TRST bit iff TRST is asserted and the RESET bit iff SRST is
\* asserted, its low mask holds the complementary bits, the masks are
\* disjoint and together hold exactly the TRST and RESET bits; the follower
\* is in RESET if TRST is asserted and where it was otherwise.
C16_LineReset ==
  \A k \in DOMAIN trace :
    DoneAt(k, JTAG_RESET) =>
      LET req == trace[k].cmd.cmd_origin
          c == EmitsOf(k)[1].cmd
          low == c.payload_out[1]
          high == c.payload_out[2]
      IN /\ Len(EmitsOf(k)) = 1
         /\ c.id = CMD_SET_SIGNALS
         /\ Len(c.payload_out) = 2
         /\ BitSet(high, SIGNAL_TRST) <=> req.trst
         /\ BitSet(high, SIGNAL_RESET) <=> req.srst
         /\ BitSet(low, SIGNAL_TRST) <=> ~req.trst
         /\ BitSet(low, SIGNAL_RESET) <=> ~req.srst
         /\ \A b \in ByteBits :
              /\ ~(BitSet(low, b) /\ BitSet(high, b))
              /\ (BitSet(low, b) \/ BitSet(high, b))
                   <=> b \in {SIGNAL_TRST, SIGNAL_RESET}
         /\ trace[k].tap = IF req.trst THEN TAP_RESET ELSE trace[ReqPos(k)].tap

\* C16 witness: a line reset that asserts TRST only, entered with the
\* follower outside RESET, has returned ERROR_OK.
C16_Witness ==
  \E m \in DOMAIN trace :
    /\ DoneAt(m, JTAG_RESET) /\ trace[m].r = 0
    /\ trace[m].cmd.cmd_origin.trst /\ ~trace[m].cmd.cmd_origin.srst
    /\ trace[ReqPos(m)].tap # TAP_RESET

\* two bytes read as an unsigned 16-bit number, low byte first
LE16(bytes) == bytes[1] + 256 * bytes[2]

\* the sleep request that returns at k has emitted one sleep-us command whose
\* payload reads as the requested number of microseconds
SleepAsClaimed(k) ==
  /\ Len(EmitsOf(k)) = 1
  /\ EmitsOf(k)[1].cmd.id = CMD_SLEEP_US
  /\ Len(EmitsOf(k)[1].cmd.payload_out) = 2
  /\ LE16(EmitsOf(k)[1].cmd.payload_out) = trace[k].cmd.cmd_origin.us

\* C17: every sleep request of us microseconds emits exactly one sleep-us
\* command, and its two payload bytes read as little-endian 16 bits equal us.
C17_SleepPayload ==
  \A k \in DOMAIN trace : DoneAt(k, JTAG_SLEEP) => SleepAsClaimed(k)

\* C17 holds of the requests whose us fits 16 bits
C17_SleepPayloadBelow65536 ==
  \A k \in DOMAIN trace :
    (DoneAt(k, JTAG_SLEEP) /\ trace[k].cmd.cmd_origin.us < 65536) =>
      SleepAsClaimed(k)

\* this step is the translation of a pathmove request
PathmoveStep ==
  /\ pc = "dispatch"
  /\ nreq' = nreq + 1
  /\ Len(trace') > 0
  /\ trace'[Len(trace')].kind = "done"
  /\ trace'[Len(trace')].cmd.cmd_origin.type = JTAG_PATHMOVE

\* C18: the translation of a pathmove request returns ERROR_OK and changes
\* nothing: no command is emitted or sent, the queue, the result arrays, the
\* follower's state and its end state are what they were.
C18_PathmoveNoEffect ==
  [][PathmoveStep =>
       /\ trace'[Len(trace')].r = 0
       /\ pc' = "dispatch"
       /\ Len(trace') = Len(trace) + 2
       /\ trace'[Len(trace') - 1].kind = "req"
       /\ UNCHANGED <<queue, commands_in_queue, bufs, tap_state, tap_end_state,
                      delivered>>]_vars

\* C18 witness: a pathmove request has just returned, with commands pending
\* in the queue and the follower outside RESET.
C18_Witness ==
  /\ pc = "dispatch"
  /\ Len(trace) > 0
  /\ DoneAt(Len(trace), JTAG_PATHMOVE)
  /\ queue # <<>>
  /\ tap_state # TAP_RESET

----------------------------------------------------------------------------
(* Shape of the scan commands                                               *)

\* the shape the wire protocol fixes for a chunk of a scan of this type whose
\* header declares bytes bytes
ScanShape(scan_type, bytes) ==
  CASE scan_type = SCAN_IN ->
         [id |-> CMD_SCAN_IN, out |-> 5, in |-> bytes]
    [] scan_type = SCAN_OUT ->
         [id |-> CMD_SCAN_OUT, out |-> 5 + bytes, in |-> 0]
    [] scan_type = SCAN_IO ->
         [id |-> CMD_SCAN_IO, out |-> 5 + bytes, in |-> bytes]

\* C19: every wire command a scan request emits has the id, the OUT payload
\* size and the IN size its scan type fixes (IN: scan-in, 5, bytes; OUT:
\* scan-out, 5 + bytes, 0; IO: scan-io, 5 + bytes, bytes), bytes being the
\* header's byte count and at most 58; no slow scan id is ever emitted.
C19_ScanCommandShape ==
  \A k \in DOMAIN trace :
    trace[k].kind = "emit" =>
      LET c == trace[k].cmd
      IN /\ c.id \notin {CMD_SLOW_SCAN_IN, CMD_SLOW_SCAN_OUT, CMD_SLOW_SCAN_IO}
         /\ (c.cmd_origin.id # NULL /\ c.cmd_origin.type = JTAG_SCAN) =>
              LET bytes == c.payload_out[1]
                  shape == ScanShape(c.cmd_origin.scan_type, bytes)
              IN /\ bytes \in 1..ScanPayloadMax
                 /\ c.id = shape.id
                 /\ Len(c.payload_out) = shape.out
                 /\ c.payload_in_size = shape.in

\* C19 witness: a 929-bit IO scan has returned ERROR_OK after emitting chunks
\* of 58, 58 and 1 bytes.
C19_Witness ==
  \E k \in DOMAIN trace :
    /\ ScanDoneOk(k)
    /\ trace[k].cmd.cmd_origin.scan_type = SCAN_IO
    /\ LET es == ScanEmits(trace[k].cmd.cmd_origin.id)
       IN /\ Len(es) = 3
          /\ es[1].cmd.payload_out[1] = 58
          /\ es[3].cmd.payload_out[1] = 1

----------------------------------------------------------------------------
(* The end-state setter                                                     *)

\* ulink_set_end_state was called at position k of the history
SetterAt(k) == trace[k].kind = "set_end_state"

\* the call at k was made by the scan translator: it follows the entry of a
\* scan request
SetterOfScanAt(k) ==
  /\ SetterAt(k)
  /\ k > 1
  /\ trace[k - 1].kind = "req"
  /\ trace[k - 1].cmd.cmd_origin.type = JTAG_SCAN

\* the states spec.md calls stable in its description of the follower
SpecStableStates == {TAP_RESET, TAP_IDLE, TAP_IRPAUSE, TAP_DRPAUSE}

\* the states the follower calls stable
FollowerStableStates ==
  {TAP_RESET, TAP_IDLE, TAP_DRSHIFT, TAP_DRPAUSE, TAP_IRSHIFT, TAP_IRPAUSE}

----------------------------------------------------------------------------
(* TMS paths                                                                *)

\* position k of the history is the clock-tms command of a state move
StatemoveEmitAt(k) ==
  /\ k > 2 /\ k < Len(trace)
  /\ trace[k].kind = "emit"
  /\ trace[k].cmd.id = CMD_CLOCK_TMS
  /\ trace[k - 2].kind = "statemove"
  /\ trace[k - 1].kind = "set_end_state"
  /\ trace[k + 1].kind = "moved"

\* position k of the history is the first command of a scan
FirstScanEmitAt(k) ==
  /\ trace[k].kind = "emit"
  /\ trace[k].cmd.cmd_origin.type = JTAG_SCAN
  /\ \A j \in 1..(k - 1) : trace[j].kind # "emit"

\* C21: whenever ulink_queue_statemove queues a move from the follower's
\* state a to the end state b, the clock-tms command carries the length and
\* the bits of the path from a to b: the length is at most 7, and clocking
\* that many bits of the sequence, least significant first, through the TAP
\* graph from a ends in b, the state the follower records.  The same holds
\* for the path a scan takes from the follower's state to its shift state.
C21_PathsLeadToTarget ==
  \A k \in DOMAIN trace :
    /\ StatemoveEmitAt(k) =>
         LET a == trace[k - 2].tap
             b == trace[k - 1].tap
             count == trace[k].cmd.payload_out[1]
             sequence == trace[k].cmd.payload_out[2]
         IN /\ count = tap_get_tms_path_len(a, b)
            /\ count <= 7
            /\ sequence = tap_get_tms_path(a, b)
            /\ Walk(a, sequence % (2 ^ count), count) = b
            /\ trace[k + 1].r = 0 => trace[k + 1].tap = b
    /\ FirstScanEmitAt(k) =>
         LET o == trace[k].cmd.cmd_origin
             a == EntryTap(o.id)
             b == ShiftState(o.ir_scan)
             count == trace[k].cmd.payload_out[3] \div 16
             sequence == trace[k].cmd.payload_out[4]
         IN /\ count = tap_get_tms_path_len(a, b)
            /\ count <= 7
            /\ Walk(a, sequence % (2 ^ count), count) = b

\* C21 witness: a seven-bit move, DRSHIFT to IRPAUSE, was queued after an
\* earlier move and the follower is in IRPAUSE.
C21_Witness ==
  /\ Len(trace) = 8
  /\ StatemoveEmitAt(7)
  /\ trace[5].tap = TAP_DRSHIFT
  /\ trace[6].tap = TAP_IRPAUSE
  /\ trace[7].cmd.payload_out[1] = 7
  /\ tap_state = TAP_IRPAUSE

----------------------------------------------------------------------------
(* ulink_init                                                               *)

FirmwareKinds == {"cpucs", "image_open", "fwchunk", "usb_close", "usleep"}

\* str begins with the characters of name
BeginsWith(str, name) ==
  /\ Len(str) >= Len(name)
  /\ \A i \in 1..Len(name) : str[i] = name[i]

\* the descriptor entry at position 2 calls for the firmware download
NeedsFirmware ==
  trace[2].r < 0 \/ ~BeginsWith(trace[2].data, <<"O", "p", "e", "n", "U", "L", "I", "N", "K">>)

EmitOf(k, id) == trace[k].kind = "emit" /\ trace[k].cmd.id = id

\* C22: init opens the device first and reads string descriptor 1 next; the
\* firmware download happens exactly when the descriptor is absent or does
\* not begin with "OpenULINK"; the test command (payload 0xAA) is emitted
\* once, and only after the firmware decision has been carried out: directly
\* after the descriptor when no download is needed, otherwise after the
\* successful release of the CPU, the close, the 1.5 s wait and the successful
\* re-open, in this order; get-signals is emitted only after the test
\* command has been sent.
C22_InitOrder ==
  /\ Len(trace) >= 1 => trace[1].kind = "usb_open"
  /\ Len(trace) >= 2 => trace[1].r = 0 /\ trace[2].kind = "descriptor"
  /\ Len(trace) >= 2 =>
       /\ NeedsFirmware <=>
            (Len(trace) >= 3 /\ trace[3].kind = "cpucs" /\ trace[3].data = <<1>>)
       /\ NeedsFirmware <=> (\E k \in DOMAIN trace : trace[k].kind \in FirmwareKinds)
  /\ \A k \in DOMAIN trace :
       EmitOf(k, CMD_TEST) =>
         /\ trace[k].cmd.payload_out = <<170>>
         /\ \A j \in DOMAIN trace : EmitOf(j, CMD_TEST) => j = k
         /\ IF NeedsFirmware
            THEN /\ k >= 8
                 /\ trace[k - 1].kind = "usb_open" /\ trace[k - 1].r = 0
                 /\ trace[k - 2].kind = "usleep" /\ trace[k - 2].count = 1500000
                 /\ trace[k - 3].kind = "usb_close" /\ trace[k - 3].r = 0
                 /\ trace[k - 4].kind = "cpucs" /\ trace[k - 4].data = <<0>>
                 /\ trace[k - 4].r = 1
                 /\ \A j \in 3..(k - 5) :
                      trace[j].kind \in {"cpucs", "image_open", "fwchunk"}
            ELSE k = 3
  /\ \A m \in DOMAIN trace :
       EmitOf(m, CMD_GET_SIGNALS) =>
         \E k \in 1..(m - 2) :
           /\ EmitOf(k, CMD_TEST)
           /\ trace[k + 1].kind = "out"
           /\ trace[k + 1].data = <<CMD_TEST, 170>>

\* C22 witness: init has come to its end after the adapter answered "Keil":
\* three chunks of firmware were written before the test command.
C22_Witness ==
  /\ pc = "idle"
  /\ calls = 0
  /\ Len(trace) > 12
  /\ trace[2].data = <<"K", "e", "i", "l">>
  /\ Len(OfKind("fwchunk")) = 3
  /\ \E m \in DOMAIN trace : EmitOf(m, CMD_GET_SIGNALS)

\* the test command's exchange has returned at position k
TestExchangeAt(k) ==
  /\ k > 2
  /\ trace[k].kind = "xret"
  /\ trace[k - 1].kind = "out"
  /\ EmitOf(k - 2, CMD_TEST)

\* init is past the test stage and not yet into get-signals
AfterTestStage ==
  /\ \E k \in DOMAIN trace : TestExchangeAt(k)
  /\ ~\E m \in DOMAIN trace : EmitOf(m, CMD_GET_SIGNALS)

\* C23: the recovery bulk IN read is made exactly when the test exchange
\* has failed, directly after it; init ends with an error at this stage
\* exactly when the exchange and the recovery read have both failed;
\* otherwise it goes on to get-signals with an empty batch.
C23_RecoveryRead ==
  /\ \A k \in DOMAIN trace :
       TestExchangeAt(k) =>
         (trace[k].r # 0 <=> (k < Len(trace) /\ trace[k + 1].kind = "drain"))
  /\ \A k \in DOMAIN trace :
       trace[k].kind = "drain" => TestExchangeAt(k - 1)
  /\ AfterTestStage =>
       LET k == CHOOSE j \in DOMAIN trace : TestExchangeAt(j)
           bothFailed == trace[k].r # 0 /\ trace[k + 1].r < 0
       IN /\ bothFailed <=> (pc = "dead" /\ ret = ERROR_FAIL)
          /\ ~bothFailed => (pc = "init_signals" /\ queue = <<>>
                              /\ commands_in_queue = 0)

\* C23 witness: the test exchange has failed, the recovery read has
\* succeeded, and init is about to send get-signals with an empty batch.
C23_Witness ==
  /\ pc = "init_signals"
  /\ queue = <<>>
  /\ trace[Len(trace)].kind = "drain"
  /\ trace[Len(trace)].r >= 0
  /\ trace[Len(trace) - 1].r = -1

\* the byte at offset b of section s has been written, at its address, by a
\* complete control transfer between positions i and k of the history
ByteWritten(i, k, s, b) ==
  \E j \in (i + 1)..(k - 1) :
    /\ trace[j].kind = "fwchunk"
    /\ trace[j].data[1] = s
    /\ trace[j].r = trace[j].count
    /\ trace[j].data[3] <= b /\ b < trace[j].data[3] + trace[j].count
    /\ trace[j].count <= 64
    /\ trace[j].data[2] = (trace[i].batch[s] + trace[j].data[3]) % 65536

CpucsAt(k, value) == trace[k].kind = "cpucs" /\ trace[k].data = <<value>>

----------------------------------------------------------------------------
(* TCK frequency                                                            *)

\* C25: ulink_khz(k) returns an error for k = 0 and for every k above 150 and
\* leaves the caller's speed index as it was; for every other k it returns
\* ERROR_OK and the speed index is 0.
C25_KhzRange ==
  \A i \in DOMAIN trace :
    trace[i].kind = "khz" =>
      LET k == trace[i].data[1]
          before == trace[i].data[2]
          after == trace[i].data[3]
      IN IF k = 0 \/ k > 150
         THEN trace[i].r = -1 /\ after = before
         ELSE trace[i].r = 0 /\ after = 0

\* C25 witness: 151 kHz was refused with the speed index left at 7, then
\* 150 kHz was accepted with index 0.
C25_Witness ==
  /\ Len(trace) = 2
  /\ trace[1].kind = "khz" /\ trace[1].data = <<151, 7, 7>> /\ trace[1].r = -1
  /\ trace[2].kind = "khz" /\ trace[2].data = <<150, 7, 0>> /\ trace[2].r = 0
  /\ ret = ERROR_OK

\* C26: ulink_speed_div always returns ERROR_OK; it sets the caller's khz to
\* 150 for index 0 and to 100 for index 1, and leaves it as it was for every
\* other index.
C26_SpeedDivTable ==
  \A i \in DOMAIN trace :
    trace[i].kind = "speed_div" =>
      LET speed == trace[i].data[1]
          before == trace[i].data[2]
          after == trace[i].data[3]
      IN /\ trace[i].r = 0
         /\ speed = 0 => after = 150
         /\ speed = 1 => after = 100
         /\ speed \notin {0, 1} => after = before

\* C26 witness: index 1 gave 100 kHz, then index 2 returned ERROR_OK with the
\* caller's khz still 7.
C26_Witness ==
  /\ Len(trace) = 2
  /\ trace[1].kind = "speed_div" /\ trace[1].data = <<1, 0, 100>>
  /\ trace[2].kind = "speed_div" /\ trace[2].data = <<2, 7, 7>>
  /\ ret = ERROR_OK

----------------------------------------------------------------------------
(* Payload allocation                                                       *)

\* this step is a call of ulink_allocate_payload for the direction
AllocStep(direction) ==
  /\ Len(trace') = Len(trace) + 1
  /\ trace'[Len(trace')].kind = "alloc"
  /\ trace'[Len(trace')].tap = direction

\* the command being built has a payload for the direction
HasPayload(direction) ==
  IF direction = "OUT" THEN newcmd.cmd.payload_out # NULL
  ELSE newcmd.cmd.payload_in_start # NULL

\* C27: a call of ulink_allocate_payload for a direction in which the
\* command already has a payload returns an error and leaves the payload
\* pointers, the sizes and the ownership flag of the command as they were.
C27_DuplicateAllocation ==
  [][\A direction \in {"OUT", "IN"} :
       (AllocStep(direction) /\ HasPayload(direction)) =>
         /\ ret' = ERROR_FAIL
         /\ trace'[Len(trace')].r = -1
         /\ newcmd'.cmd = newcmd.cmd]_vars

\* C27 witness: the command got an IN payload of 2 bytes and an OUT payload
\* of 5 bytes; a second IN allocation, of 63 bytes, was refused and the
\* command still points to the first array with size 2.
C27_Witness ==
  /\ Len(trace) = 3
  /\ trace[3].kind = "alloc" /\ trace[3].tap = "IN" /\ trace[3].r = -1
  /\ trace[3].data = <<63>>
  /\ newcmd.heap = <<2, 5, 63>>
  /\ newcmd.cmd.payload_in_start = 1
  /\ newcmd.cmd.payload_in = 1
  /\ newcmd.cmd.payload_in_size = 2
  /\ newcmd.cmd.free_payload_in_start
  /\ newcmd.cmd.payload_out = 2
  /\ ret = ERROR_FAIL

----------------------------------------------------------------------------
(* Automatic flush of ulink_append_queue                                    *)

EmitAt(k) == trace[k].kind = "emit"

\* a command as QueueSummary shows it
CmdSummary(c) ==
  [payload_out_size |-> Len(c.payload_out), payload_in_size |-> c.payload_in_size,
   needs_postprocessing |-> c.needs_postprocessing, origin |-> c.cmd_origin.id]

\* adding the command of position k to the batch it found exceeds a budget
ExceedsBudget(k) ==
  \/ SumOutSizes(trace[k].cmds) + 1 + Len(trace[k].cmd.payload_out) > 64
  \/ SumInSizes(trace[k].cmds) + trace[k].cmd.payload_in_size > 64

\* the append at position k has flushed before adding
AutoFlushAt(k) == k < Len(trace) /\ trace[k + 1].kind = "out"

LaterEmits(k) == {j \in (k + 1)..Len(trace) : EmitAt(j)}

\* the batch the append at position k has left can still be read: a later
\* append has recorded the batch it found, or no flush has followed
BatchAfterKnown(k) ==
  \/ LaterEmits(k) # {}
  \/ \A j \in (k + 2)..Len(trace) : trace[j].kind # "out"

BatchAfter(k) ==
  IF LaterEmits(k) # {}
  THEN trace[CHOOSE j \in LaterEmits(k) : \A i \in LaterEmits(k) : j <= i].cmds
  ELSE QueueSummary(queue)

\* C28: ulink_append_queue flushes the pending batch exactly when adding the
\* command would make the sum of (1 + payload_out_size) or the sum of
\* payload_in_size exceed 64; it flushes the batch it found; without a flush
\* the batch afterwards is the batch it found plus the command; after a
\* successful flush the batch is the command alone; after a failed flush the
\* batch is the batch it found, and no further command is emitted.
C28_AppendFlushesWhenFull ==
  \A k \in DOMAIN trace :
    EmitAt(k) =>
      /\ AutoFlushAt(k) <=> ExceedsBudget(k)
      /\ AutoFlushAt(k) => trace[k + 1].cmds = trace[k].cmds
      /\ (AutoFlushAt(k) /\ trace[FlushReturn(k + 1)].r # 0) => LaterEmits(k) = {}
      /\ BatchAfterKnown(k) =>
           BatchAfter(k) =
             IF ~AutoFlushAt(k)
             THEN Append(trace[k].cmds, CmdSummary(trace[k].cmd))
             ELSE IF trace[FlushReturn(k + 1)].r = 0
             THEN <<CmdSummary(trace[k].cmd)>>
             ELSE trace[k].cmds

\* C28 witness: a command that brought the IN sum to exactly 64 was added
\* without a flush; the next command did not fit, the batch was flushed
\* successfully and now holds that command alone.
C28_Witness ==
  \E k, m \in DOMAIN trace :
    /\ EmitAt(k) /\ trace[k].cmds # <<>>
    /\ SumInSizes(trace[k].cmds) + trace[k].cmd.payload_in_size = 64
    /\ ~AutoFlushAt(k)
    /\ m > k /\ EmitAt(m) /\ AutoFlushAt(m)
    /\ trace[FlushReturn(m + 1)].r = 0
    /\ LaterEmits(m) = {}
    /\ queue = <<trace[m].cmd>>
    /\ commands_in_queue = 1

----------------------------------------------------------------------------
(* Follower state at clock-tck                                              *)

\* the command handed to ulink_append_queue at position k was added to the
\* batch: no flush was needed, or the flush succeeded
AppendedAt(k) ==
  EmitAt(k) /\ (AutoFlushAt(k) => trace[FlushReturn(k + 1)].r = 0)

\* a clock-tck command was added to the batch at position k
TckAppendedAt(k) == AppendedAt(k) /\ trace[k].cmd.id = CMD_CLOCK_TCK

\* C29: a clock-tck command is appended to the batch only while the follower
\* is in IDLE, whatever the requests and whatever the bulk transfers of the
\* automatic flushes return.
C29_TckOnlyInIdle ==
  \A k \in DOMAIN trace : TckAppendedAt(k) => trace[k].tap = TAP_IDLE

\* C29 holds of the clock-tck commands of requests during which no earlier
\* bulk transfer failed
C29_TckOnlyInIdleNoFailure ==
  \A k \in DOMAIN trace :
    (/\ TckAppendedAt(k)
     /\ \A j \in 1..k : (trace[j].kind = "req" /\ \A i \in j..k : trace[i].kind # "done")
                            => \A i \in j..k : ~TransferFailed(trace[i]))
    => trace[k].tap = TAP_IDLE

----------------------------------------------------------------------------
(* Follower state after a translator has failed                             *)

\* the translator of a request of this type has returned an error at k
FailedAt(k, type) == DoneAt(k, type) /\ trace[k].r # 0

\* the follower is where it was when the request entered its translator
FollowerAsBefore(k) == trace[k].tap = trace[ReqPos(k)].tap

\* C30: when the translator of a scan, TLR reset, runtest or line reset
\* request returns an error, the follower is in the state it was in before
\* the translator was called.
C30_ErrorLeavesFollower ==
  \A k \in DOMAIN trace :
    \A type \in {JTAG_SCAN, JTAG_TLR_RESET, JTAG_RUNTEST, JTAG_RESET} :
      FailedAt(k, type) => FollowerAsBefore(k)

\* C30 holds of the TLR reset translator, which sets the follower only after
\* its command was accepted
C30_TlrResetErrorLeavesFollower ==
  \A k \in DOMAIN trace : FailedAt(k, JTAG_TLR_RESET) => FollowerAsBefore(k)

\* the scan translator sets the follower to the shift state before its first
\* command, the line reset translator sets it to RESET before its command
C30_ScanErrorLeavesFollower ==
  \A k \in DOMAIN trace : FailedAt(k, JTAG_SCAN) => FollowerAsBefore(k)

C30_ResetErrorLeavesFollower ==
  \A k \in DOMAIN trace : FailedAt(k, JTAG_RESET) => FollowerAsBefore(k)

----------------------------------------------------------------------------
(* Scatter of the inbound packet                                            *)

\* position k is a bulk IN that returned exactly the bytes expected
BulkInOkAt(k) ==
  /\ k \in DOMAIN trace /\ k > 1 /\ k < Len(trace)
  /\ trace[k].kind = "in" /\ trace[k].r = trace[k].count

\* the bytes of packet at offsets [from, from + n)
Slice(packet, from, n) == [j \in 1..n |-> packet[from + j]]

\* C31: after a successful bulk IN, command i of the batch holds in its
\* inbound view the bytes of the inbound packet at offsets [sum of
\* payload_in_size of the commands before i, that sum + payload_in_size of i);
\* a command with no inbound payload has an empty view and consumes nothing.
C31_InboundScatter ==
  \A k \in DOMAIN trace :
    BulkInOkAt(k) =>
      LET cmds == trace[k - 1].cmds
          views == trace[k + 1].views
      IN /\ trace[k + 1].kind = "xret" /\ trace[k + 1].r = 0
         /\ Len(views) = Len(cmds)
         /\ Len(trace[k].data) = SumInSizes(cmds)
         /\ \A i \in 1..Len(cmds) :
              views[i] = Slice(trace[k].data, SumInSizes(SubSeq(cmds, 1, i - 1)),
                               cmds[i].payload_in_size)

\* the batch whose bulk IN is at position k holds a command without inbound
\* payload before one with inbound payload
MixedBatchAt(k) ==
  \E i, j \in 1..Len(trace[k - 1].cmds) :
    /\ i < j
    /\ trace[k - 1].cmds[i].payload_in_size = 0
    /\ trace[k - 1].cmds[j].payload_in_size > 0

\* the batch whose bulk IN is at position k holds two commands with inbound
\* payload
TwoInboundAt(k) ==
  \E i, j \in 1..Len(trace[k - 1].cmds) :
    /\ i < j
    /\ trace[k - 1].cmds[i].payload_in_size > 0
    /\ trace[k - 1].cmds[j].payload_in_size > 0

\* C31 witness: one call has had a successful bulk IN for a batch with an
\* OUT-only command before an inbound one, and one for a batch with two
\* inbound commands, whose second view starts at a non-zero offset.
C31_Witness ==
  /\ \E k \in DOMAIN trace : BulkInOkAt(k) /\ MixedBatchAt(k)
  /\ \E k \in DOMAIN trace :
       /\ BulkInOkAt(k) /\ TwoInboundAt(k)
       /\ trace[k + 1].views[Len(trace[k + 1].views)] # <<>>
       /\ trace[k + 1].views[Len(trace[k + 1].views)][1]
            # trace[k].data[1]

----------------------------------------------------------------------------
(* TDI bytes of a split scan                                                *)

\* position k hands a command of an OUT or IO scan to ulink_append_queue
TdiChunkAt(k) ==
  /\ EmitAt(k)
  /\ trace[k].cmd.cmd_origin.type = JTAG_SCAN
  /\ trace[k].cmd.cmd_origin.scan_type \in {SCAN_OUT, SCAN_IO}

\* how many commands the request of the command at k has emitted before it
ChunkIndex(k) ==
  Cardinality({j \in 1..(k - 1) :
                 EmitAt(j) /\ trace[j].cmd.cmd_origin.id = trace[k].cmd.cmd_origin.id})

\* the TDI bytes a scan command carries after its five header bytes
TdiBytesOf(c) == SubSeq(c.payload_out, 6, Len(c.payload_out))

\* the TDI bytes of the commands es, concatenated in order
ConcatTdi(es) == Flatten([i \in 1..Len(es) |-> TdiBytesOf(es[i].cmd)])

\* C32: every command of an OUT or IO scan of N bits carries, after its
\* header, as many TDI bytes as the header declares, and they are the bytes
\* of the caller's TDI buffer at offsets 58k up to 58k + that count, k being
\* the number of commands the scan has emitted before; when the scan
\* translator has returned ERROR_OK the bytes of its commands, concatenated
\* in emission order, are the whole buffer of ceil(N/8) bytes.
C32_TdiBytesInOrder ==
  /\ \A k \in DOMAIN trace :
       TdiChunkAt(k) =>
         LET c == trace[k].cmd
             bytes == ResultBytes(c.cmd_origin.bits)
             from == 58 * ChunkIndex(k)
         IN /\ Len(TdiBytesOf(c)) = c.payload_out[1]
            /\ from + c.payload_out[1] <= bytes
            /\ TdiBytesOf(c) = Slice(TdiBuffer(bytes), from, c.payload_out[1])
  /\ \A k \in DOMAIN trace :
       (ScanDoneOk(k) /\ trace[k].cmd.cmd_origin.scan_type \in {SCAN_OUT, SCAN_IO}) =>
         ConcatTdi(ScanEmits(trace[k].cmd.cmd_origin.id))
           = TdiBuffer(ResultBytes(trace[k].cmd.cmd_origin.bits))

\* C32 witness: an IO scan of 929 bits has returned ERROR_OK after three
\* commands carrying 58, 58 and 1 TDI bytes.
C32_Witness ==
  \E k \in DOMAIN trace :
    /\ ScanDoneOk(k)
    /\ trace[k].cmd.cmd_origin.scan_type = SCAN_IO
    /\ trace[k].cmd.cmd_origin.bits = 929
    /\ LET es == ScanEmits(trace[k].cmd.cmd_origin.id)
       IN /\ Len(es) = 3
          /\ Len(TdiBytesOf(es[1].cmd)) = 58
          /\ Len(TdiBytesOf(es[2].cmd)) = 58
          /\ Len(TdiBytesOf(es[3].cmd)) = 1
          /\ TdiBytesOf(es[3].cmd)[1] = TdiBuffer(117)[117]

----------------------------------------------------------------------------
(* Cycle count of clock-tck                                                 *)

\* the two payload bytes of a clock-tck command read as a little-endian
\* 16-bit number
TckCount(c) == c.payload_out[1] + 256 * c.payload_out[2]

\* the runtest that returns at k has emitted clock-tck commands for exactly
\* its number of cycles
TckCountAsRequested(k) ==
  \A i \in 1..Len(EmitsOf(k)) :
    EmitsOf(k)[i].cmd.id = CMD_CLOCK_TCK =>
      TckCount(EmitsOf(k)[i].cmd) = trace[k].cmd.cmd_origin.num_cycles

\* C33: for every runtest request, the two payload bytes of the emitted
\* clock-tck command, read as a little-endian 16-bit number, equal the
\* requested number of cycles, which is an int and may exceed 65535.
C33_TckCountIsNumCycles ==
  \A k \in DOMAIN trace : DoneAt(k, JTAG_RUNTEST) => TckCountAsRequested(k)

\* C33 holds of the runtests whose number of cycles fits 16 bits
C33_TckCountIsNumCycles16 ==
  \A k \in DOMAIN trace :
    (DoneAt(k, JTAG_RUNTEST) /\ trace[k].cmd.cmd_origin.num_cycles \in 0..65535)
      => TckCountAsRequested(k)

----------------------------------------------------------------------------
(* Oversized scan command                                                   *)

\* the step is a direct call of ulink_append_scan_cmd
AppendScanStep ==
  /\ Len(trace') > Len(trace)
  /\ trace'[Len(trace')].kind = "append_scan"

\* C34: a call of ulink_append_scan_cmd for more than 58 * 8 = 464 bits
\* returns an error and leaves the pending batch and the follower as they
\* were; nothing is transferred.
C34_OversizedScanRejected ==
  [][(AppendScanStep /\ trace'[Len(trace')].data[1] > 464) =>
       /\ ret' = ERROR_FAIL
       /\ trace'[Len(trace')].r = -1
       /\ Len(trace') = Len(trace) + 1
       /\ queue' = queue
       /\ commands_in_queue' = commands_in_queue
       /\ tap_state' = tap_state
       /\ tap_end_state' = tap_end_state]_vars

\* C34 witness: a scan command of 464 bits was accepted and fills the batch;
\* a call for 465 bits was then refused, the batch still holds that one
\* command and nothing was sent.
C34_Witness ==
  /\ Len(trace) = 3
  /\ trace[1].kind = "emit"
  /\ trace[2].kind = "append_scan" /\ trace[2].data = <<464>> /\ trace[2].r = 0
  /\ trace[3].kind = "append_scan" /\ trace[3].data = <<465>> /\ trace[3].r = -1
  /\ Len(queue) = 1 /\ commands_in_queue = 1
  /\ queue[1] = trace[1].cmd
  /\ ulink_get_queue_size_out(queue) = 64
  /\ tap_state = trace[3].tap
  /\ ret = ERROR_FAIL

----------------------------------------------------------------------------
(* What a successful call has sent                                          *)

\* the bulk OUT transfers of the call that sent their whole packet
OutsOk == SelectSeq(trace, LAMBDA e : e.kind = "out" /\ e.r = e.count)

\* the bytes of those packets, in order
SentOkBytes == Flatten([k \in 1..Len(OutsOk) |-> OutsOk[k].data])

\* s is the end of t
IsSuffix(s, t) ==
  Len(s) <= Len(t) /\ SubSeq(t, Len(t) - Len(s) + 1, Len(t)) = s

\* the batch is empty and every command emitted during the call was added
\* to the batch and sent by one successful bulk OUT: the packets that were
\* sent end with the emitted commands, each once, in emission order (what
\* precedes them was pending when the call began)
AllEmittedSentOnce ==
  /\ queue = <<>>
  /\ commands_in_queue = 0
  /\ \A k \in DOMAIN trace : EmitAt(k) => AppendedAt(k)
  /\ IsSuffix(EmittedBytes, SentOkBytes)

\* C35: when ulink_execute_queue has returned ERROR_OK, the pending batch is
\* empty, commands_in_queue is 0, and every wire command emitted during the
\* call has been part of exactly one successful bulk OUT.
C35_SuccessMeansAllSent ==
  (pc = "idle" /\ calls > 0 /\ ret = ERROR_OK) => AllEmittedSentOnce

\* C35 holds of the calls during which no bulk transfer failed
C35_SuccessMeansAllSentNoFailure ==
  (/\ pc = "idle" /\ calls > 0 /\ ret = ERROR_OK
   /\ \A k \in DOMAIN trace : ~TransferFailed(trace[k])) => AllEmittedSentOnce

\* the batch is empty after every successful call
C35_SuccessMeansEmptyBatch ==
  (pc = "idle" /\ calls > 0 /\ ret = ERROR_OK) =>
    (queue = <<>> /\ commands_in_queue = 0)

----------------------------------------------------------------------------
(* The get-signals exchange of ulink_init                                   *)

\* ulink_init has read the two signal bytes at position k of the history
SignalsReadAt(k) == trace[k].kind = "signals"

\* the get-signals command was handed to the queue and its exchange is
\* complete: a whole bulk OUT, a bulk IN of exactly two bytes, and the bytes
\* read at k are the bytes of that bulk IN
SignalsFromAdapter(k) ==
  /\ k > 4
  /\ trace[k - 4].kind = "emit" /\ trace[k - 4].cmd.id = CMD_GET_SIGNALS
  /\ trace[k - 3].kind = "out" /\ trace[k - 3].r = trace[k - 3].count
  /\ trace[k - 2].kind = "in" /\ trace[k - 2].r = 2
  /\ trace[k - 1].kind = "xret" /\ trace[k - 1].r = 0
  /\ trace[k].r = 0
  /\ trace[k].data = trace[k - 2].data

\* C36: ulink_init returns ERROR_OK only if the get-signals command was
\* appended and its bulk OUT / bulk IN exchange succeeded, so that the two
\* signal bytes it reports are bytes the adapter returned.
C36_InitNeedsSignals ==
  (pc = "idle" /\ calls = 0 /\ ret = ERROR_OK) =>
    \E k \in DOMAIN trace : SignalsReadAt(k) /\ SignalsFromAdapter(k)

\* whenever the exchange has succeeded the bytes reported are the adapter's
C36_SignalsWhenExchangeOk ==
  \A k \in DOMAIN trace :
    (SignalsReadAt(k) /\ trace[k].r = 0) => SignalsFromAdapter(k)

----------------------------------------------------------------------------
(* Termination of ulink_execute_queue                                       *)

\* a call of ulink_execute_queue is under way
InCall == pc \in {"dispatch", "scan"}

\* the step is an iteration of the loop of ulink_queue_scan that another
\* iteration follows
LoopStep == pc = "scan" /\ pc' = "scan"

\* how often the request with this id has entered a translator
TimesDispatched(id) == Cardinality({k \in DOMAIN trace : ReqAt(k, id)})

\* C37: a call of ulink_execute_queue for a finite request list returns,
\* whatever the USB transfers return: every iteration of the scan loop that
\* another iteration follows leaves fewer bytes to do, the loop is left when
\* none remain, no request enters a translator twice, and every call that
\* is under way comes back to the caller.
C37_ExecuteQueueReturns ==
  /\ [][LoopStep => (scan'.bytecount < scan.bytecount /\ scan'.bytecount > 0)]_vars
  /\ [](pc = "scan" => scan.bytecount > 0)
  /\ [](\A id \in 1..MaxListLen : TimesDispatched(id) <= 1)
  /\ [](nreq <= MaxListLen)
  /\ (InCall ~> (pc = "idle"))

\* C37 witness: the call has returned after two requests, the second a scan
\* of 929 bits whose loop ran three times.
C37_Witness ==
  /\ pc = "idle" /\ calls = 1
  /\ nreq = 2
  /\ TimesDispatched(1) = 1 /\ TimesDispatched(2) = 1
  /\ \E k \in DOMAIN trace :
       /\ ScanDoneOk(k)
       /\ trace[k].cmd.cmd_origin.id = 2
       /\ trace[k].cmd.cmd_origin.bits = 929
       /\ Len(ScanEmits(2)) = 3

====
